---- MODULE Spec2Model ----
(***************************************************************************)
(* Model of the Power BI metadata server (JStrazecki/MCPServer).           *)
(*                                                                         *)
(* Part 1: PowerBIAPIClient (src/powerbi_client.py), the gateway to the    *)
(* identity provider and to the Power BI REST API.  The client object is   *)
(* shared by the threads of the web server, so every method is modelled    *)
(* as the steps between its blocking calls: a thread can be pre-empted     *)
(* wherever the method waits for the network.                              *)
(*                                                                         *)
(* Part 2: categorize_measure_by_name (src/powerbi_client.py), the pure    *)
(* classifier of measure names, computed on strings made of characters.    *)
(*                                                                         *)
(* Part 3: extract_measure_dependencies (src/powerbi_client.py), the pure  *)
(* analyzer of calculation expressions.                                    *)
(*                                                                         *)
(* Part 4: the query journal (src/query_routes.py on the table of          *)
(* src/relationship.py): record, feedback, analytics, popular questions.   *)
(*                                                                         *)
(* Part 5: the catalog routes (src/routes.py, src/dataset_routes.py):      *)
(* create_workspace, sync_dataset, sync_workspace and the context routes.  *)
(* The services they call (services/metadata_service.py,                   *)
(* services/context_service.py) and the models of the catalog tables are   *)
(* not among the sources; they are modelled from sections 3, 4.4, 4.5 and  *)
(* 7 of the specification.                                                 *)
(***************************************************************************)
EXTENDS Integers, Sequences, FiniteSets, TLC

\* ------------------------------------------------------------ bounds
\* Threads that use the one client object at the same time.
NumCallers == 2
\* The clock (datetime.utcnow()) runs from 0 to MaxTime.
MaxTime == 2
\* Token requests the identity provider is asked to answer in one run.
MaxRequests == 3
\* Ids the sequence of the table query_history gives out in one run.
MaxEntries == 2
\* Days that pass while the journal is written and read.
MaxDays == 1
\* Queries of a long journal that ask the same question.
MaxRepeats == 21
\* Queries of a long journal that ask a question no other query asks.
MaxOthers == 11
\* Queries of a short journal.
MaxAsked == 2

\* ------------------------------------------------------------ program constants
\* result.get('expires_in', 3600): the lifetime used when the provider names none.
DefaultExpiresIn == 3600
\* response.status_code == 200
HTTP_OK == 200

Callers == 1..NumCallers

\* The three environment variables __init__ reads.
CredentialNames == {"POWERBI_TENANT_ID", "POWERBI_CLIENT_ID", "POWERBI_CLIENT_SECRET"}

\* The public methods of the client.
Ops == {"get_access_token", "get_workspace", "get_workspace_datasets",
        "get_dataset_metadata", "get_dataset_refresh_history",
        "discover_dataset_schema"}

\* ------------------------------------------------------------ values
\* Python's None.
None == [kind |-> "None"]
\* An exception that leaves the method (no handler caught it).
Raised == [kind |-> "Raised"]
\* A dict without keys ({}).
EmptyDict == <<>>
\* A list that a method returns as such.
List(items) == [kind |-> "list", items |-> items]
\* d.get(k, default)
Get(d, k, default) == IF k \in DOMAIN d THEN d[k] ELSE default

\* self.token_cache = {}
EmptyCache == EmptyDict
\* The local variable token: 0 is None, n > 0 is the token of request n.
NoToken == 0

VARIABLES
    credentials,    \* the environment variables that are set
    token_cache,    \* self.token_cache
    now,            \* datetime.utcnow()
    idp_requests,   \* token requests sent to the identity provider so far
    pc,             \* where each caller is in its method
    op,             \* the method each caller runs
    sent,           \* token requests the caller's current call has sent
    request,        \* the caller's token request in flight (0: none)
    token,          \* the caller's local variable token
    result,         \* get_access_token's local variable result (the provider's answer)
    calls,          \* the remote calls of the current call, as the BI platform saw them
    schema,         \* discover_dataset_schema's local variable schema
    ret             \* what the call returned

VARIABLES
    measure_name,   \* the argument of categorize_measure_by_name (a string)
    category        \* what categorize_measure_by_name returned for it (None: not called)

VARIABLES
    expression,     \* the argument of extract_measure_dependencies (a string)
    dependencies    \* what extract_measure_dependencies returned for it (None: not called)

VARIABLES
    database,       \* the dialect named by SQLALCHEMY_DATABASE_URI
    query_history,  \* the rows of the table query_history, in the order of their ids
    id_seq,         \* the last value the id sequence of query_history gave out
    http_request,   \* the last request to a route (None: none yet)
    http_response   \* the response the route gave to it

VARIABLES
    workspaces,     \* the rows of the table workspaces, by id
    datasets,       \* the rows of the table datasets, by id
    catalog_tables, \* the rows of the table tables, in the order of their ids
    catalog_measures, \* the rows of the table measures, in the order of their ids
    sync_result,    \* what the last call of the sync engine returned (None: no call yet)
    handler         \* the local variables of a get_query_analytics call that is
                    \* between two of its queries (None: no such call)

classifier_vars == <<measure_name, category>>

analyzer_vars == <<expression, dependencies>>

journal_vars == <<database, query_history, id_seq, http_request, http_response>>

catalog_vars == <<workspaces, datasets, catalog_tables, catalog_measures, sync_result,
                 handler>>

\* The state outside the gateway.
component_vars == <<classifier_vars, analyzer_vars, journal_vars, catalog_vars>>

gateway_vars == <<credentials, token_cache, now, idp_requests, pc, op, sent,
                  request, token, result, calls, schema, ret>>


\* ------------------------------------------------------------ __init__
\* Mutant: any([...]) for all([...]), one credential is enough.
msal_app_AnyCredential == credentials # {}

\* all([self.tenant_id, self.client_id, self.client_secret]): the MSAL
\* application exists only when the three credentials are set.
msal_app == credentials = CredentialNames

\* The initial value of every per-caller variable (a call's fresh locals).
gateway_idle ==
    /\ pc = [c \in Callers |-> "idle"]
    /\ op = [c \in Callers |-> "none"]
    /\ sent = [c \in Callers |-> 0]
    /\ request = [c \in Callers |-> 0]
    /\ token = [c \in Callers |-> NoToken]
    /\ result = [c \in Callers |-> None]
    /\ calls = [c \in Callers |-> <<>>]
    /\ schema = [c \in Callers |-> None]
    /\ ret = [c \in Callers |-> None]

\* PowerBIAPIClient.__init__: the credentials come from the environment, the
\* token cache starts empty.
gateway_init ==
    /\ credentials \in SUBSET CredentialNames
    /\ token_cache = EmptyCache
    /\ now = 0
    /\ idp_requests = 0
    /\ gateway_idle

\* ------------------------------------------------------------ get_access_token
\* The answers of msal_app.acquire_token_for_client: a result with an access
\* token (with or without expires_in), a result without one, or an exception.
Lifetimes == {1}
TokenAnswers ==
    [kind : {"token"}, expires_in : Lifetimes]
        \cup {[kind |-> "token"], [kind |-> "error"], [kind |-> "exception"]}

\* 'access_token' in result
HasAccessToken(answer) == answer.kind = "token"

\* Mutant: the expiry of the cached token is not looked at.
CacheFresh_NoExpiry == "token" \in DOMAIN token_cache

\* 'token' in self.token_cache and token_data['expires_at'] > datetime.utcnow()
CacheFresh == /\ "token" \in DOMAIN token_cache
              /\ token_cache["token"].expires_at > now

\* The dict written to self.token_cache['token'] for the token of request n.
NewCacheEntry(n, answer) ==
    [access_token |-> n,
     expires_at |-> now + Get(answer, "expires_in", DefaultExpiresIn)]

\* What get_access_token returns for the local token value t.
TokenResult(t) == IF t = NoToken THEN None ELSE [kind |-> "str", access_token |-> t]

\* The result of an operation that got no token (if not token: return ...).
EmptySchema == [tables |-> <<>>, measures |-> <<>>]
NoTokenResult(o) ==
    CASE o = "get_workspace_datasets" -> List(<<>>)
      [] o = "discover_dataset_schema" -> EmptySchema
      [] OTHER -> None

\* get_access_token has ended for caller c with token t: get_access_token
\* itself returns it; every other method returns at once without a token and
\* goes on to its remote call with one.
TokenDone(c, t) ==
    /\ token' = [token EXCEPT ![c] = t]
    /\ IF op[c] = "get_access_token"
         THEN /\ pc' = [pc EXCEPT ![c] = "done"]
              /\ ret' = [ret EXCEPT ![c] = TokenResult(t)]
         ELSE IF t = NoToken
           THEN /\ pc' = [pc EXCEPT ![c] = "done"]
                /\ ret' = [ret EXCEPT ![c] = NoTokenResult(op[c])]
           ELSE /\ pc' = [pc EXCEPT ![c] = "remote"]
                /\ ret' = ret

\* A thread enters one of the client's methods; each of them starts with
\* get_access_token.
Call(c, o) ==
    /\ pc[c] = "idle"
    /\ pc' = [pc EXCEPT ![c] = "check"]
    /\ op' = [op EXCEPT ![c] = o]
    /\ UNCHANGED component_vars
    /\ UNCHANGED <<credentials, token_cache, now, idp_requests, sent, request,
                   token, result, calls, schema, ret>>

\* Lines 39-46: no MSAL application, no token; a cached token that has not
\* expired is returned; otherwise the call goes on to ask for a new one.
get_access_token_check(c) ==
    /\ pc[c] = "check"
    /\ IF ~msal_app
         THEN TokenDone(c, NoToken)
         ELSE IF CacheFresh
           THEN TokenDone(c, token_cache["token"].access_token)
           ELSE /\ pc' = [pc EXCEPT ![c] = "acquire"]
                /\ UNCHANGED <<token, ret>>
    /\ UNCHANGED component_vars
    /\ UNCHANGED <<credentials, token_cache, now, idp_requests, op, sent,
                   request, result, calls, schema>>

\* Line 49, the call: the token request leaves for the identity provider.
acquire_token_send(c) ==
    /\ pc[c] = "acquire"
    /\ idp_requests < MaxRequests
    /\ idp_requests' = idp_requests + 1
    /\ request' = [request EXCEPT ![c] = idp_requests + 1]
    /\ sent' = [sent EXCEPT ![c] = @ + 1]
    /\ pc' = [pc EXCEPT ![c] = "wait"]
    /\ UNCHANGED component_vars
    /\ UNCHANGED <<credentials, token_cache, now, op, token, result, calls, schema, ret>>

\* Mutant: a failed token request is sent again instead of ending in None.
acquire_token_reply_Retry(c, answer) ==
    /\ pc[c] = "wait"
    /\ IF answer.kind = "token"
         THEN /\ token_cache' = [token |-> NewCacheEntry(request[c], answer)]
              /\ TokenDone(c, request[c])
         ELSE /\ pc' = [pc EXCEPT ![c] = "acquire"]
              /\ UNCHANGED <<token_cache, token, ret>>
    /\ request' = [request EXCEPT ![c] = 0]
    /\ result' = [result EXCEPT ![c] = answer]
    /\ UNCHANGED component_vars
    /\ UNCHANGED <<credentials, now, idp_requests, op, sent, calls, schema>>

\* Lines 49-65, the answer: a token is cached with its expiry and returned; a
\* result without a token and an exception both end in None.
acquire_token_reply(c, answer) ==
    /\ pc[c] = "wait"
    /\ IF HasAccessToken(answer)
         THEN /\ token_cache' = [token |-> NewCacheEntry(request[c], answer)]
              /\ TokenDone(c, request[c])
         ELSE /\ token_cache' = token_cache
              /\ TokenDone(c, NoToken)
    /\ request' = [request EXCEPT ![c] = 0]
    /\ result' = [result EXCEPT ![c] = answer]
    /\ UNCHANGED component_vars
    /\ UNCHANGED <<credentials, now, idp_requests, op, sent, calls,
                   schema>>


\* ------------------------------------------------------------ remote calls
\* What requests.get / requests.post can do: raise (a transport error), or
\* return a response with a status code and a body that is JSON or not.
Statuses == {HTTP_OK, 404, 500}
TransportError == [exc |-> TRUE]
HttpResponse(status, is_json, body) ==
    [exc |-> FALSE, status_code |-> status, is_json |-> is_json, body |-> body]
\* The answers to a request whose JSON bodies are drawn from bodies.
ResponsesWith(bodies) ==
    {TransportError}
        \cup {HttpResponse(s, FALSE, EmptyDict) : s \in Statuses}
        \cup {HttpResponse(HTTP_OK, TRUE, b) : b \in bodies}

\* The request raised, or response.json() raises on a body that is not JSON.
IsTransportError(r) == r.exc
JsonRaises(r) == ~r.exc /\ r.status_code = HTTP_OK /\ ~r.is_json

\* The bodies of GET /groups/{id}.
WorkspaceBodies == {[id |-> "w1", name |-> "Sales"]}
\* The bodies of GET /groups/{id}/datasets.
DatasetListBodies == {EmptyDict, [value |-> <<>>], [value |-> <<"dataset1">>]}
\* The bodies of GET /datasets/{id}.
DatasetBodies == {EmptyDict, [targetStorageMode |-> "Import"]}
\* The bodies of GET /datasets/{id}/refreshes?$top=1.
RefreshBodies ==
    {EmptyDict, [value |-> <<>>],
     [value |-> <<[endTime |-> "t1", status |-> "Completed"]>>]}
\* The rows the platform computes for an introspection query.
RowsFor(query_type) == <<[query |-> query_type, row |-> 1]>>
\* The bodies of POST .../executeQueries for the query of one type.
QueryBodies(query_type) ==
    {EmptyDict,
     [results |-> <<>>],
     [results |-> <<EmptyDict>>],
     [results |-> <<[tables |-> <<>>]>>],
     [results |-> <<[tables |-> <<EmptyDict>>]>>],
     [results |-> <<[tables |-> <<[rows |-> <<>>]>>]>>],
     [results |-> <<[tables |-> <<[rows |-> RowsFor(query_type)]>>]>>]}

\* What the platform did with a request: the connection failed, it answered
\* with a status that is not 2xx, or it answered 200 (with or without JSON).
Outcome(r) ==
    IF r.exc THEN "transport_error"
    ELSE IF r.status_code # HTTP_OK THEN "non_2xx"
    ELSE IF r.is_json THEN "ok" ELSE "not_json"
\* The rows the platform put into its answer (none unless it answered 200
\* with a first result whose first table has rows).
RawRows(r) ==
    IF Outcome(r) = "ok" /\ "results" \in DOMAIN r.body /\ Len(r.body.results) > 0
         /\ "tables" \in DOMAIN r.body.results[1] /\ Len(r.body.results[1].tables) > 0
         /\ "rows" \in DOMAIN r.body.results[1].tables[1]
      THEN r.body.results[1].tables[1].rows
      ELSE <<>>
\* A remote call, as the platform saw it: the request and its answer.
RemoteCall(endpoint, query, r) ==
    [endpoint |-> endpoint, query |-> query, outcome |-> Outcome(r), rows |-> RawRows(r)]

\* Mutant: the status code is not looked at.
get_workspace_result_NoStatusCheck(r) ==
    IF IsTransportError(r) \/ JsonRaises(r) THEN None ELSE r.body

\* Lines 73-86 of get_workspace: the JSON of a 200 answer, None for every
\* other status and for every exception.
get_workspace_result(r) ==
    IF IsTransportError(r) \/ JsonRaises(r) THEN None
    ELSE IF r.status_code = HTTP_OK THEN r.body
    ELSE None

\* Lines 94-107 of get_workspace_datasets: the 'value' list of a 200 answer,
\* [] for every other status and for every exception.
get_workspace_datasets_result(r) ==
    IF IsTransportError(r) \/ JsonRaises(r) THEN List(<<>>)
    ELSE IF r.status_code = HTTP_OK THEN List(Get(r.body, "value", <<>>))
    ELSE List(<<>>)

\* Lines 115-148 of get_dataset_metadata: the fixed (empty) structure, with
\* the model version of a 200 answer; None for every exception.
get_dataset_metadata_result(r) ==
    IF IsTransportError(r) \/ JsonRaises(r) THEN None
    ELSE IF r.status_code = HTTP_OK
      THEN [tables |-> <<>>, measures |-> <<>>, relationships |-> <<>>,
            model_version |-> Get(r.body, "targetStorageMode", None)]
      ELSE [tables |-> <<>>, measures |-> <<>>, relationships |-> <<>>]

\* Lines 156-178 of get_dataset_refresh_history: the latest refresh of a 200
\* answer that lists one; None otherwise and for every exception.
get_dataset_refresh_history_result(r) ==
    IF IsTransportError(r) \/ JsonRaises(r) THEN None
    ELSE IF r.status_code = HTTP_OK /\ Get(r.body, "value", <<>>) # <<>>
      THEN LET latest == r.body.value[1]
           IN [last_refresh_date |-> Get(latest, "endTime", None),
               last_refresh_status |-> Get(latest, "status", None),
               duration |-> Get(latest, "duration", None)]
      ELSE None

\* The endpoint and the result of the methods that make one remote call.
SingleCallOps == {"get_workspace", "get_workspace_datasets",
                  "get_dataset_metadata", "get_dataset_refresh_history"}
EndpointOf(o) ==
    CASE o = "get_workspace" -> "GET /groups/{id}"
      [] o = "get_workspace_datasets" -> "GET /groups/{id}/datasets"
      [] o = "get_dataset_metadata" -> "GET /datasets/{id}"
      [] o = "get_dataset_refresh_history" -> "GET /datasets/{id}/refreshes"
      [] OTHER -> "POST /groups/{id}/datasets/{id}/executeQueries"
BodiesOf(o) ==
    CASE o = "get_workspace" -> WorkspaceBodies
      [] o = "get_workspace_datasets" -> DatasetListBodies
      [] o = "get_dataset_metadata" -> DatasetBodies
      [] OTHER -> RefreshBodies
ResultOf(o, r) ==
    CASE o = "get_workspace" -> get_workspace_result(r)
      [] o = "get_workspace_datasets" -> get_workspace_datasets_result(r)
      [] o = "get_dataset_metadata" -> get_dataset_metadata_result(r)
      [] OTHER -> get_dataset_refresh_history_result(r)

\* The one remote call of get_workspace, get_workspace_datasets,
\* get_dataset_metadata or get_dataset_refresh_history, and the method's
\* return.
remote_get(c, r) ==
    /\ pc[c] = "remote"
    /\ op[c] \in SingleCallOps
    /\ calls' = [calls EXCEPT ![c] = Append(@, RemoteCall(EndpointOf(op[c]), "none", r))]
    /\ ret' = [ret EXCEPT ![c] = ResultOf(op[c], r)]
    /\ pc' = [pc EXCEPT ![c] = "done"]
    /\ UNCHANGED component_vars
    /\ UNCHANGED <<credentials, token_cache, now, idp_requests, op, sent,
                   request, token, result, schema>>

\* ------------------------------------------------------------ discover_dataset_schema
\* Mutant: the two queries in the other order.
QueryTypes_MeasuresFirst == <<"measures", "tables">>

\* The loop of line 226: the tables query, then the measures query.
QueryTypes == <<"tables", "measures">>

\* Lines 234-240: the rows a 200 answer carries for schema[query_type]; the
\* entry keeps its value when the answer has no rows to give.
RowsOf(r, old) ==
    IF r.status_code = HTTP_OK
         /\ "results" \in DOMAIN r.body /\ r.body.results # <<>>
      THEN LET tables == Get(r.body.results[1], "tables", <<>>)
           IN IF tables # <<>> THEN Get(tables[1], "rows", <<>>) ELSE old
      ELSE old

\* Line 221 (first step only) and one turn of the loop of lines 226-240: the
\* query is posted; an exception ends the method with the empty schema (lines
\* 244-246), an answer fills schema[query_type] and the loop goes on or the
\* method returns schema (line 242).
discover_dataset_schema_query(c, r) ==
    /\ pc[c] = "remote"
    /\ op[c] = "discover_dataset_schema"
    /\ LET i == Len(calls[c]) + 1
           query_type == QueryTypes[i]
           before == IF i = 1 THEN EmptySchema ELSE schema[c]
           after == [before EXCEPT ![query_type] = RowsOf(r, @)]
       IN /\ r \in ResponsesWith(QueryBodies(query_type))
          /\ calls' = [calls EXCEPT ![c] = Append(@, RemoteCall(EndpointOf(op[c]), query_type, r))]
                /\ IF IsTransportError(r) \/ JsonRaises(r)
               THEN /\ schema' = [schema EXCEPT ![c] = before]
                    /\ ret' = [ret EXCEPT ![c] = EmptySchema]
                    /\ pc' = [pc EXCEPT ![c] = "done"]
               ELSE /\ schema' = [schema EXCEPT ![c] = after]
                    /\ IF i = Len(QueryTypes)
                         THEN /\ ret' = [ret EXCEPT ![c] = after]
                              /\ pc' = [pc EXCEPT ![c] = "done"]
                         ELSE UNCHANGED <<ret, pc>>
    /\ UNCHANGED component_vars
    /\ UNCHANGED <<credentials, token_cache, now, idp_requests, op, sent,
                   request, token, result>>

\* The caller takes the result; the locals of the call are gone.
Return(c) ==
    /\ pc[c] = "done"
    /\ pc' = [pc EXCEPT ![c] = "idle"]
    /\ op' = [op EXCEPT ![c] = "none"]
    /\ sent' = [sent EXCEPT ![c] = 0]
    /\ token' = [token EXCEPT ![c] = NoToken]
    /\ result' = [result EXCEPT ![c] = None]
    /\ calls' = [calls EXCEPT ![c] = <<>>]
    /\ schema' = [schema EXCEPT ![c] = None]
    /\ ret' = [ret EXCEPT ![c] = None]
    /\ UNCHANGED component_vars
    /\ UNCHANGED <<credentials, token_cache, now, idp_requests, request>>

\* Time passes.
Tick ==
    /\ now < MaxTime
    /\ now' = now + 1
    /\ UNCHANGED component_vars
    /\ UNCHANGED <<credentials, token_cache, idp_requests, pc, op, sent,
                   request, token, result, calls, schema, ret>>

\* ------------------------------------------------------------ categorize_measure_by_name
\* A string is the sequence of its characters.
UpperCase == <<"A", "B", "C", "D", "E", "F", "G", "H", "I", "J", "K", "L", "M",
               "N", "O", "P", "Q", "R", "S", "T", "U", "V", "W", "X", "Y", "Z">>
LowerCase == <<"a", "b", "c", "d", "e", "f", "g", "h", "i", "j", "k", "l", "m",
               "n", "o", "p", "q", "r", "s", "t", "u", "v", "w", "x", "y", "z">>

\* str.lower(): every upper-case letter becomes its lower-case letter, every
\* other character stays.
lower(str) ==
    [i \in 1..Len(str) |->
        IF \E k \in 1..Len(UpperCase) : UpperCase[k] = str[i]
          THEN LowerCase[CHOOSE k \in 1..Len(UpperCase) : UpperCase[k] = str[i]]
          ELSE str[i]]

\* pattern in str: the pattern occurs in the string as a substring.
In(pattern, str) ==
    \E i \in 1..(Len(str) - Len(pattern) + 1) :
        SubSeq(str, i, i + Len(pattern) - 1) = pattern

\* any(pattern in name_lower for pattern in patterns)
AnyIn(patterns, name_lower) == \E pattern \in patterns : In(pattern, name_lower)

\* The pattern lists of lines 318-326 and 332-340.
TimePatterns ==
    {<<"y", "t", "d">>,
     <<"m", "t", "d">>,
     <<"y", "o", "y">>,
     <<"m", "o", "m">>}
RatioPatterns ==
    {<<"%">>,
     <<"p", "e", "r", "c", "e", "n", "t">>,
     <<"r", "a", "t", "i", "o">>}
AveragePatterns ==
    {<<"a", "v", "g">>,
     <<"a", "v", "e", "r", "a", "g", "e">>}
SumPatterns ==
    {<<"s", "u", "m">>,
     <<"t", "o", "t", "a", "l">>}
CountPatterns ==
    {<<"c", "o", "u", "n", "t">>,
     <<"d", "i", "s", "t", "i", "n", "c", "t">>}
SalesPatterns ==
    {<<"r", "e", "v", "e", "n", "u", "e">>,
     <<"s", "a", "l", "e", "s">>,
     <<"i", "n", "c", "o", "m", "e">>}
CostPatterns ==
    {<<"c", "o", "s", "t">>,
     <<"e", "x", "p", "e", "n", "s", "e">>}
ProfitPatterns ==
    {<<"p", "r", "o", "f", "i", "t">>,
     <<"m", "a", "r", "g", "i", "n">>}
CustomerPatterns ==
    {<<"c", "u", "s", "t", "o", "m", "e", "r">>,
     <<"c", "l", "i", "e", "n", "t">>}
OperationsPatterns ==
    {<<"i", "n", "v", "e", "n", "t", "o", "r", "y">>,
     <<"s", "t", "o", "c", "k">>}

\* Mutant: the ratio rule is tried before the time-intelligence rule.
measure_type_RatioFirst(name_lower) ==
    IF AnyIn(RatioPatterns, name_lower) THEN "Ratio"
    ELSE IF AnyIn(TimePatterns, name_lower) THEN "Time Intelligence"
    ELSE IF AnyIn(AveragePatterns, name_lower) THEN "Average"
    ELSE IF AnyIn(SumPatterns, name_lower) THEN "Sum"
    ELSE IF AnyIn(CountPatterns, name_lower) THEN "Count"
    ELSE "Calculated"

\* Lines 317-329: the measure type, by the first rule that matches.
measure_type(name_lower) ==
    IF AnyIn(TimePatterns, name_lower) THEN "Time Intelligence"
    ELSE IF AnyIn(RatioPatterns, name_lower) THEN "Ratio"
    ELSE IF AnyIn(AveragePatterns, name_lower) THEN "Average"
    ELSE IF AnyIn(SumPatterns, name_lower) THEN "Sum"
    ELSE IF AnyIn(CountPatterns, name_lower) THEN "Count"
    ELSE "Calculated"

\* Mutant: the customer rule is tried before the cost rule.
business_area_CustomerFirst(name_lower) ==
    IF AnyIn(SalesPatterns, name_lower) THEN "Sales"
    ELSE IF AnyIn(CustomerPatterns, name_lower) THEN "Customer"
    ELSE IF AnyIn(CostPatterns, name_lower) THEN "Finance"
    ELSE IF AnyIn(ProfitPatterns, name_lower) THEN "Finance"
    ELSE IF AnyIn(OperationsPatterns, name_lower) THEN "Operations"
    ELSE "General"

\* Lines 331-343: the business area, by the first rule that matches.
business_area(name_lower) ==
    IF AnyIn(SalesPatterns, name_lower) THEN "Sales"
    ELSE IF AnyIn(CostPatterns, name_lower) THEN "Finance"
    ELSE IF AnyIn(ProfitPatterns, name_lower) THEN "Finance"
    ELSE IF AnyIn(CustomerPatterns, name_lower) THEN "Customer"
    ELSE IF AnyIn(OperationsPatterns, name_lower) THEN "Operations"
    ELSE "General"

\* Mutant: the first character of the name is read, which fails on "".
categorize_measure_by_name_RaisesOnEmpty(name) ==
    IF name = <<>> THEN Raised
    ELSE [measure_type |-> measure_type(lower(name)),
          business_area |-> business_area(lower(name))]

\* Lines 313-348: the two tags of a measure name.
categorize_measure_by_name(name) ==
    LET name_lower == lower(name)
    IN [measure_type |-> measure_type(name_lower),
        business_area |-> business_area(name_lower)]

\* The names the classifier is run on: up to MaxWords pieces, put together
\* without a separator (a piece brings its own blanks).
MaxWords == 2
Pieces ==
    {<<"y", "t", "d">>,
     <<"m", "t", "d">>,
     <<"y", "o", "y">>,
     <<"m", "o", "m">>,
     <<"%">>,
     <<"p", "e", "r", "c", "e", "n", "t">>,
     <<"r", "a", "t", "i", "o">>,
     <<"a", "v", "g">>,
     <<"a", "v", "e", "r", "a", "g", "e">>,
     <<"s", "u", "m">>,
     <<"t", "o", "t", "a", "l">>,
     <<"c", "o", "u", "n", "t">>,
     <<"d", "i", "s", "t", "i", "n", "c", "t">>,
     <<"r", "e", "v", "e", "n", "u", "e">>,
     <<"s", "a", "l", "e", "s">>,
     <<"i", "n", "c", "o", "m", "e">>,
     <<"c", "o", "s", "t">>,
     <<"e", "x", "p", "e", "n", "s", "e">>,
     <<"p", "r", "o", "f", "i", "t">>,
     <<"m", "a", "r", "g", "i", "n">>,
     <<"c", "u", "s", "t", "o", "m", "e", "r">>,
     <<"c", "l", "i", "e", "n", "t">>,
     <<"i", "n", "v", "e", "n", "t", "o", "r", "y">>,
     <<"s", "t", "o", "c", "k">>,
     <<"Y", "T", "D">>,
     <<" ">>,
     <<"U", "n", "i", "t", "s">>,
     <<"y">>,
     <<"t", "d">>,
     <<"C", "u", "s", "t", "o", "m", "e", "r", " ", "R", "e", "t", "e", "n", "t", "i", "o", "n", " ", "C", "o", "s", "t", " ", "%">>}
RECURSIVE Flatten(_)
Flatten(pieces) ==
    IF pieces = <<>> THEN <<>> ELSE Head(pieces) \o Flatten(Tail(pieces))
MeasureNames ==
    UNION {{Flatten(ps) : ps \in [1..n -> Pieces]} : n \in 0..MaxWords}

classifier_init ==
    /\ measure_name = <<>>
    /\ category = None

\* The classifier is given any of the names.
classifier_input ==
    /\ measure_name \in MeasureNames
    /\ category = None

\* categorize_measure_by_name(measure_name) is called (a first time, or again).
categorize ==
    /\ category' = categorize_measure_by_name(measure_name)
    /\ UNCHANGED measure_name
    /\ UNCHANGED gateway_vars
    /\ UNCHANGED <<analyzer_vars, journal_vars, catalog_vars>>

\* ------------------------------------------------------------ extract_measure_dependencies
\* The first position from `from` on where the string has the character, 0
\* when it has it nowhere from there on.
FirstAt(str, ch, from) ==
    LET at == {i \in from..Len(str) : str[i] = ch}
    IN IF at = {} THEN 0 ELSE CHOOSE i \in at : \A j \in at : i <= j

\* Line 301, r'\[([^\]]+)\]' tried at position i: the position of the closing
\* bracket of the match, 0 when the pattern does not match there.  [^\]]+
\* takes every character up to the next "]" and needs at least one.
measure_pattern(str, i) ==
    IF str[i] # "[" THEN 0
    ELSE LET close == FirstAt(str, "]", i + 1)
         IN IF close > i + 1 THEN close ELSE 0

\* Line 305, r"'([^']+)'\[([^\]]+)\]" tried at position i: the positions of
\* the closing quote and of the closing bracket of the match, None when the
\* pattern does not match there.
column_pattern(str, i) ==
    IF str[i] # "'" THEN None
    ELSE LET quote == FirstAt(str, "'", i + 1)
         IN IF quote > i + 1 /\ quote < Len(str) /\ str[quote + 1] = "["
              THEN LET close == FirstAt(str, "]", quote + 2)
                   IN IF close > quote + 2
                        THEN [kind |-> "match", quote |-> quote, close |-> close]
                        ELSE None
              ELSE None

\* Line 302, re.findall(measure_pattern, expression) from position i on: the
\* group of every match, leftmost first, a match starting where the one
\* before it ended.
RECURSIVE potential_measures(_, _)
potential_measures(str, i) ==
    IF i > Len(str) THEN <<>>
    ELSE LET close == measure_pattern(str, i)
         IN IF close = 0 THEN potential_measures(str, i + 1)
            ELSE <<SubSeq(str, i + 1, close - 1)>> \o potential_measures(str, close + 1)

\* Line 306, re.findall(column_pattern, expression) from position i on: the
\* pair (table, col) of every match.
RECURSIVE columns(_, _)
columns(str, i) ==
    IF i > Len(str) THEN <<>>
    ELSE LET m == column_pattern(str, i)
         IN IF m = None THEN columns(str, i + 1)
            ELSE <<[table |-> SubSeq(str, i + 1, m.quote - 1),
                    col |-> SubSeq(str, m.quote + 2, m.close - 1)]>>
                   \o columns(str, m.close + 1)

\* Lines 288-311.  'measures' is list(set(...)): every name once, in an order
\* the set decides, so the model keeps the set.  'columns' is the list of
\* f"{table}.{col}", one for every match.
extract_measure_dependencies(expr) ==
    IF expr = <<>> THEN [measures |-> {}, columns |-> <<>>]
    ELSE LET found == potential_measures(expr, 1)
             pairs == columns(expr, 1)
         IN [measures |-> {found[k] : k \in DOMAIN found},
             columns |-> [k \in DOMAIN pairs |->
                              pairs[k].table \o <<".">> \o pairs[k].col]]

\* The expressions the analyzer is run on: up to MaxTokens pieces, put
\* together without a separator.
MaxTokens == 3
Tokens ==
    {<<"'", "T", "'", "[", "c", "]">>,
     <<"'", "T", "'", "[", "d", "]">>,
     <<"'", "U", "'", "[", "c", "]">>,
     <<"[", "m", "]">>,
     <<"[", "c", "]">>,
     <<"T">>,
     <<"+">>,
     <<"'">>,
     <<"[">>,
     <<"]">>}
Expressions ==
    UNION {{Flatten(ps) : ps \in [1..n -> Tokens]} : n \in 0..MaxTokens}

\* Before the first call.
analyzer_init ==
    /\ expression = <<>>
    /\ dependencies = None

\* The analyzer is given any of the expressions.
analyzer_input ==
    /\ expression \in Expressions
    /\ dependencies = None

\* One call of extract_measure_dependencies(expression).
extract ==
    /\ dependencies' = extract_measure_dependencies(expression)
    /\ UNCHANGED expression
    /\ UNCHANGED gateway_vars
    /\ UNCHANGED <<classifier_vars, journal_vars, catalog_vars>>

\* ------------------------------------------------------------ the query journal
\* The databases SQLALCHEMY_DATABASE_URI can name: the default, and the one
\* DATABASE_URL sets for a local run.
Dialects == {"postgresql", "sqlite"}

\* db = SQLAlchemy(): an empty table query_history, no request served yet.
journal_init ==
    /\ database = "postgresql"
    /\ query_history = <<>>
    /\ id_seq = 0
    /\ http_request = None
    /\ http_response = None

\* A value of a nullable column or of a JSON key that is not None.
Value(v) == [kind |-> "value", value |-> v]

\* The rows of the table datasets (the targets of query_history.dataset_id).
Datasets == {"ds1", "ds2"}

\* The ids of the rows of query_history.
query_ids == {query_history[k].id : k \in DOMAIN query_history}

\* QueryHistory(...): the row record_query builds from the request.  The id comes
\* from the sequence and created_at from default=datetime.utcnow; the feedback
\* columns are not among the arguments and start as NULL.  A key of the
\* request that the constructor is not given (id, created_at) is not read.
QueryHistory(data, id, created_at) ==
    [id |-> id,
     dataset_id |-> data["dataset_id"],
     natural_language_query |-> data["natural_language_query"],
     execution_time_ms |-> Get(data, "execution_time_ms", None),
     success |-> Get(data, "success", TRUE),
     measures_used |-> Get(data, "measures_used", None),
     led_to_query_id |-> Get(data, "led_to_query_id", None),
     user_rating |-> None,
     user_feedback |-> None,
     was_helpful |-> None,
     created_at |-> created_at]

\* QueryHistory.to_dict(): led_to_query_id and user_feedback are not in it.
to_dict(row) ==
    [id |-> row.id,
     dataset_id |-> row.dataset_id,
     natural_language_query |-> row.natural_language_query,
     execution_time_ms |-> row.execution_time_ms,
     success |-> row.success,
     measures_used |-> row.measures_used,
     user_rating |-> row.user_rating,
     was_helpful |-> row.was_helpful,
     created_at |-> row.created_at]

\* db.session.commit() of a new row: PostgreSQL checks the two foreign keys
\* when the INSERT statement ends, so a row may reference itself; SQLite, as
\* SQLAlchemy opens it, checks neither.
commit_accepts(row) ==
    database = "postgresql" =>
        /\ row.dataset_id \in Datasets
        /\ row.led_to_query_id # None =>
              row.led_to_query_id.value \in query_ids \cup {row.id}

\* Mutant: the route has no except branch, the exception leaves it.
ServerError_Escapes == Raised

\* The answer of a route whose except branch ran.
ServerError == [status |-> 500]

\* Lines 74-114, POST /record.  data['dataset_id'] and
\* data['natural_language_query'] raise KeyError when the key is missing; a
\* commit the database refuses is rolled back, the id it drew from the
\* sequence is not given back.
record_query(data) ==
    /\ id_seq < MaxEntries
    /\ http_request' = [route |-> "record_query", data |-> data]
    /\ IF ~({"dataset_id", "natural_language_query"} \subseteq DOMAIN data)
         THEN /\ http_response' = ServerError
              /\ UNCHANGED <<query_history, id_seq>>
         ELSE LET row == QueryHistory(data, id_seq + 1, now)
              IN IF commit_accepts(row)
                   THEN /\ query_history' = Append(query_history, row)
                        /\ id_seq' = id_seq + 1
                        /\ http_response' = [status |-> 201, query_id |-> row.id,
                                             query |-> to_dict(row)]
                   ELSE /\ query_history' = query_history
                        /\ id_seq' = id_seq + 1
                        /\ http_response' = ServerError
    /\ UNCHANGED database
    /\ UNCHANGED gateway_vars
    /\ UNCHANGED <<classifier_vars, analyzer_vars, catalog_vars>>

\* Mutant: a key that is not in the request sets its column to None.
with_feedback_AllColumns(row, data) ==
    [row EXCEPT !.user_rating = Get(data, "user_rating", None),
                !.user_feedback = Get(data, "user_feedback", None),
                !.was_helpful = Get(data, "was_helpful", None)]

\* Lines 212-218: the three feedback columns, each set when its key is in the
\* request, to whatever value the request gives.
with_feedback(row, data) ==
    [row EXCEPT !.user_rating = Get(data, "user_rating", @),
                !.user_feedback = Get(data, "user_feedback", @),
                !.was_helpful = Get(data, "was_helpful", @)]

\* Lines 205-230, POST /<query_id>/feedback.  get_or_404 raises NotFound for
\* an id without a row; NotFound is an Exception, so the except branch answers.
update_query_feedback(query_id, data) ==
    /\ http_request' = [route |-> "update_query_feedback", query_id |-> query_id,
                        data |-> data]
    /\ IF query_id \notin query_ids
         THEN /\ http_response' = ServerError
              /\ UNCHANGED query_history
         ELSE LET k == CHOOSE k \in DOMAIN query_history : query_history[k].id = query_id
                  query == with_feedback(query_history[k], data)
              IN /\ query_history' = [query_history EXCEPT ![k] = query]
                 /\ http_response' = [status |-> 200, query |-> to_dict(query)]
    /\ UNCHANGED <<database, id_seq>>
    /\ UNCHANGED gateway_vars
    /\ UNCHANGED <<classifier_vars, analyzer_vars, catalog_vars>>

\* The requests POST /record is sent while the led-to chain and the feedback
\* are under study: without a led-to reference, with a reference to the first
\* and to the last id of the run, with a key missing, and with an id and a
\* creation time of the client's own.
RecordRequests ==
    LET plain == [dataset_id |-> "ds1", natural_language_query |-> <<"q">>]
    IN {plain,
        [dataset_id |-> "ds1"],
        [dataset_id |-> "ds1", natural_language_query |-> <<"q">>,
         id |-> Value(MaxEntries), created_at |-> Value(MaxDays)]}
       \cup {[dataset_id |-> "ds1", natural_language_query |-> <<"q">>,
               led_to_query_id |-> Value(id)] : id \in {1, MaxEntries}}

\* The bodies POST /<query_id>/feedback is sent: nothing, a rating at the
\* top of the scale, and a rating above the scale with a comment.
FeedbackRequests ==
    {EmptyDict,
     [user_rating |-> Value(5)],
     [user_rating |-> Value(6), user_feedback |-> Value("good"),
      was_helpful |-> Value(TRUE)]}

\* A day passes: datetime.utcnow() of the journal counts days.
next_day ==
    /\ now < MaxDays
    /\ now' = now + 1
    /\ UNCHANGED component_vars
    /\ UNCHANGED <<credentials, token_cache, idp_requests, pc, op, sent,
                   request, token, result, calls, schema, ret>>

\* ---- GET /analytics
\* int(str) for a string of an optional sign and decimal digits; every other
\* string the model sends makes int raise ValueError.
Digits == <<"0", "1", "2", "3", "4", "5", "6", "7", "8", "9">>
is_decimal(str) ==
    /\ str # <<>>
    /\ \A k \in DOMAIN str : \E d \in DOMAIN Digits : Digits[d] = str[k]
is_integer(str) ==
    \/ is_decimal(str)
    \/ Len(str) > 1 /\ Head(str) \in {"+", "-"} /\ is_decimal(Tail(str))
RECURSIVE decimal(_)
decimal(str) ==
    LET last == (CHOOSE d \in DOMAIN Digits : Digits[d] = str[Len(str)]) - 1
    IN IF Len(str) = 1 THEN last
       ELSE 10 * decimal(SubSeq(str, 1, Len(str) - 1)) + last
int(str) ==
    IF Head(str) = "-" THEN 0 - decimal(Tail(str))
    ELSE IF Head(str) = "+" THEN decimal(Tail(str))
    ELSE decimal(str)

\* request.args.get('days', 30)
DefaultDays == 30
\* [:10], the length of the ranking of the measures
TopMeasures == 10

\* A rational number, in lowest terms.
RECURSIVE GCD(_, _)
GCD(a, b) == IF b = 0 THEN a ELSE GCD(b, a % b)
Fraction(num, den) == [num |-> num \div GCD(num, den), den |-> den \div GCD(num, den)]

\* The rows a SELECT without ORDER BY can return when the rows at the
\* positions `kept` satisfy its filter: all of them, in an order the database
\* chooses.
Selections(rows, kept) ==
    LET n == Cardinality(kept)
    IN {[i \in 1..n |-> rows[order[i]]] :
            order \in {f \in [1..n -> kept] : \A i, j \in 1..n : f[i] = f[j] => i = j}}

\* Lines 142-145: the measures_used lists of the rows that have one which is
\* not empty, one after the other.
RECURSIVE all_measures(_)
all_measures(rows) ==
    IF rows = <<>> THEN <<>>
    ELSE LET query == Head(rows)
         IN (IF query.measures_used # None /\ query.measures_used.items # <<>>
               THEN query.measures_used.items ELSE <<>>)
            \o all_measures(Tail(rows))

\* Lines 147-149: the dict of the counts, its keys in the order in which the
\* loop met them first.
RECURSIVE measure_counts(_, _)
measure_counts(measures, counts) ==
    IF measures = <<>> THEN counts
    ELSE LET measure == Head(measures)
             at == {k \in DOMAIN counts : counts[k].measure = measure}
         IN measure_counts(Tail(measures),
                IF at = {} THEN Append(counts, [measure |-> measure, count |-> 1])
                ELSE [counts EXCEPT ![CHOOSE k \in at : TRUE].count = @ + 1])

\* Line 151, sorted(..., key=lambda x: x[1], reverse=True): by falling count;
\* the sort is stable, items of equal count keep their order.
RECURSIVE sorted_by_count(_)
sorted_by_count(items) ==
    IF items = <<>> THEN <<>>
    ELSE LET last == items[Len(items)]
             rest == sorted_by_count(SubSeq(items, 1, Len(items) - 1))
             ahead == Cardinality({k \in DOMAIN rest : rest[k].count >= last.count})
         IN SubSeq(rest, 1, ahead) \o <<last>> \o SubSeq(rest, ahead + 1, Len(rest))

\* Mutant: the counts are not sorted, the ranking is in first-seen order.
top_measures_Unsorted(rows) ==
    LET ranking == measure_counts(all_measures(rows), <<>>)
    IN SubSeq(ranking, 1, IF Len(ranking) < TopMeasures THEN Len(ranking) ELSE TopMeasures)

\* Lines 141-151: the ranking of the measures of the rows.
top_measures(rows) ==
    LET ranking == sorted_by_count(measure_counts(all_measures(rows), <<>>))
    IN SubSeq(ranking, 1, IF Len(ranking) < TopMeasures THEN Len(ranking) ELSE TopMeasures)

\* The sum of the execution times of the rows (all have one).
RECURSIVE sum_execution_time_ms(_)
sum_execution_time_ms(rows) ==
    IF rows = <<>> THEN 0
    ELSE Head(rows).execution_time_ms.value + sum_execution_time_ms(Tail(rows))

\* Mutant: a row without an execution time counts as a row of time 0.
avg_execution_time_NullIsZero(start_date) ==
    LET rows == SelectSeq(query_history, LAMBDA q : q.created_at >= start_date)
        timed == SelectSeq(rows, LAMBDA q : q.execution_time_ms # None)
    IN IF Len(rows) = 0 THEN None
       ELSE Value(Fraction(sum_execution_time_ms(timed), Len(rows)))

\* Lines 162-167, func.avg(QueryHistory.execution_time_ms) over the rows of
\* the window that have an execution time: NULL when there is no such row.
\* The quotient is kept exact.
avg_execution_time(start_date) ==
    LET rows == SelectSeq(query_history,
                    LAMBDA q : q.created_at >= start_date /\ q.execution_time_ms # None)
    IN IF Len(rows) = 0 THEN None
       ELSE Value(Fraction(sum_execution_time_ms(rows), Len(rows)))

\* Line 193, float(avg_execution_time) if avg_execution_time else 0: NULL and
\* 0 are both falsy.
average_execution_time_ms(avg) ==
    IF avg = None \/ avg.value.num = 0 THEN Fraction(0, 1) ELSE avg.value

\* Lines 116-203, GET /analytics.  The clock counts days; base_query.all()
\* gives the rows of the window in an order the database chooses.  Of the
\* answer the model keeps the window, the two counts, the ranking of the
\* measures and the mean execution time; with the request it keeps the
\* datetime.utcnow() of line 122.
get_query_analytics(args) ==
    /\ http_request' = [route |-> "get_query_analytics", args |-> args, utcnow |-> now]
    /\ IF "days" \in DOMAIN args /\ ~is_integer(args["days"])
         THEN http_response' = ServerError
         ELSE LET days == IF "days" \in DOMAIN args THEN int(args["days"]) ELSE DefaultDays
                  start_date == now - days
                  in_window(q) == q.created_at >= start_date
                  base_query == SelectSeq(query_history, in_window)
              IN \E rows \in Selections(query_history,
                                         {k \in DOMAIN query_history :
                                             in_window(query_history[k])}) :
                   http_response' =
                       [status |-> 200,
                        time_range_days |-> days,
                        total_queries |-> Len(base_query),
                        successful_queries |->
                            Len(SelectSeq(base_query, LAMBDA q : q.success = TRUE)),
                        top_measures |-> top_measures(rows),
                        average_execution_time_ms |->
                            average_execution_time_ms(avg_execution_time(start_date))]
    /\ UNCHANGED <<database, query_history, id_seq>>
    /\ UNCHANGED gateway_vars
    /\ UNCHANGED <<classifier_vars, analyzer_vars, catalog_vars>>

\* The measures of a query that uses more measures than the ranking holds.
ManyMeasures ==
    [k \in 1..(TopMeasures + 1) |-> <<"m", Digits[(k \div 10) + 1], Digits[(k % 10) + 1]>>]

\* The requests POST /record is sent while the analytics are under study:
\* with and without an execution time, with and without measures.
AnalyticsRecordRequests ==
    LET plain == [dataset_id |-> "ds1", natural_language_query |-> <<"q">>]
    IN {plain}
       \cup {[dataset_id |-> "ds1", natural_language_query |-> <<"q">>,
               execution_time_ms |-> time] : time \in {Value(0), Value(3)}}
       \cup {[dataset_id |-> "ds1", natural_language_query |-> <<"q">>,
               measures_used |-> used] :
                 used \in {List(<<>>), List(<<<<"a">>>>),
                           List(<<<<"c">>, <<"b">>, <<"a">>>>), List(ManyMeasures)}}

\* The query strings GET /analytics is sent: no days, a number of days, and
\* a text that is no number.
AnalyticsArgs ==
    {EmptyDict, [days |-> <<"0">>], [days |-> <<"1">>], [days |-> <<"w">>]}

\* ---- GET /analytics, one query of the handler at a time
\* Line 182: the share of the successful queries, in percent (kept exact).
success_rate(successful_queries, total_queries) ==
    IF total_queries > 0 THEN Fraction(successful_queries * 100, total_queries)
    ELSE Fraction(0, 1)

\* The rows base_query selects (line 125) when a statement of the handler
\* runs: each statement reads the rows committed by then (the engine options
\* of settings.py set no isolation level, PostgreSQL's default is READ
\* COMMITTED).
base_query(start_date) ==
    SelectSeq(query_history, LAMBDA q : q.created_at >= start_date)

\* Lines 121-128: the window is computed and the first statement,
\* base_query.count(), runs.  int() raises on a text that is no number and
\* the except branch answers.
count_total_queries(args) ==
    /\ handler = None
    /\ IF "days" \in DOMAIN args /\ ~is_integer(args["days"])
         THEN /\ http_request' = [route |-> "get_query_analytics", args |-> args,
                                  utcnow |-> now]
              /\ http_response' = ServerError
              /\ UNCHANGED handler
         ELSE LET days == IF "days" \in DOMAIN args THEN int(args["days"])
                          ELSE DefaultDays
              IN /\ handler' = [args |-> args, days |-> days, utcnow |-> now,
                                start_date |-> now - days,
                                total_queries |-> Len(base_query(now - days))]
                 /\ UNCHANGED <<http_request, http_response>>
    /\ UNCHANGED <<database, query_history, id_seq>>
    /\ UNCHANGED <<workspaces, datasets, catalog_tables, catalog_measures, sync_result>>
    /\ UNCHANGED gateway_vars
    /\ UNCHANGED <<classifier_vars, analyzer_vars>>

\* Line 129: the second statement, base_query.filter_by(success=True).count().
count_successful_queries ==
    /\ handler # None
    /\ "successful_queries" \notin DOMAIN handler
    /\ handler' =
         [key \in DOMAIN handler \cup {"successful_queries"} |->
             IF key = "successful_queries"
               THEN Len(SelectSeq(base_query(handler.start_date),
                                  LAMBDA q : q.success = TRUE))
               ELSE handler[key]]
    /\ UNCHANGED journal_vars
    /\ UNCHANGED <<workspaces, datasets, catalog_tables, catalog_measures, sync_result>>
    /\ UNCHANGED gateway_vars
    /\ UNCHANGED <<classifier_vars, analyzer_vars>>

\* Lines 131-198: the later statements run and the answer is built from the
\* two counts as they were read.  (The later statements are kept in one
\* step: the two counts are read before them.)
analytics_answer ==
    /\ handler # None
    /\ "successful_queries" \in DOMAIN handler
    /\ http_request' = [route |-> "get_query_analytics", args |-> handler.args,
                        utcnow |-> handler.utcnow]
    /\ \E rows \in Selections(query_history,
                              {k \in DOMAIN query_history :
                                  query_history[k].created_at >= handler.start_date}) :
         http_response' =
             [status |-> 200,
              time_range_days |-> handler.days,
              total_queries |-> handler.total_queries,
              successful_queries |-> handler.successful_queries,
              success_rate |-> success_rate(handler.successful_queries,
                                            handler.total_queries),
              top_measures |-> top_measures(rows),
              average_execution_time_ms |->
                  average_execution_time_ms(avg_execution_time(handler.start_date))]
    /\ handler' = None
    /\ UNCHANGED <<database, query_history, id_seq>>
    /\ UNCHANGED <<workspaces, datasets, catalog_tables, catalog_measures, sync_result>>
    /\ UNCHANGED gateway_vars
    /\ UNCHANGED <<classifier_vars, analyzer_vars>>

\* The requests POST /record is sent while an analytics request is served:
\* a query that succeeded (the default) and one that failed.
RaceRecordRequests ==
    {[dataset_id |-> "ds1", natural_language_query |-> <<"q">>],
     [dataset_id |-> "ds1", natural_language_query |-> <<"q">>, success |-> FALSE]}

\* ---- GET /popular-questions/<dataset_id>
\* .limit(20), the rows the dedup loop is given
PopularLimit == 20
\* unique_questions[:10]
PopularQuestions == 10

\* The first n elements of a list (list[:n]).
Take(list, n) == SubSeq(list, 1, IF Len(list) < n THEN Len(list) ELSE n)

\* Mutant: only the blanks at the left end are removed (lstrip).
strip_LeftOnly(str) ==
    LET inked == {i \in DOMAIN str : str[i] \notin {" ", "\t", "\n"}}
    IN IF inked = {} THEN <<>>
       ELSE SubSeq(str, CHOOSE i \in inked : \A j \in inked : i <= j, Len(str))

\* str.strip(): the string without the whitespace at its two ends.
strip(str) ==
    LET inked == {i \in DOMAIN str : str[i] \notin {" ", "\t", "\n"}}
    IN IF inked = {} THEN <<>>
       ELSE SubSeq(str, CHOOSE i \in inked : \A j \in inked : i <= j,
                        CHOOSE i \in inked : \A j \in inked : i >= j)

\* Lines 242-244, order_by(desc(user_rating), desc(created_at)) of the rows at
\* the given positions: every order the database can give, rows that agree on
\* rating and creation time in any order.
RECURSIVE order_by(_)
order_by(positions) ==
    IF positions = {} THEN {<<>>}
    ELSE LET before(a, b) ==
                 \/ a.user_rating.value > b.user_rating.value
                 \/ /\ a.user_rating.value = b.user_rating.value
                    /\ a.created_at > b.created_at
             first == {k \in positions :
                          \A j \in positions : ~before(query_history[j], query_history[k])}
         IN UNION {{<<query_history[k]>> \o rest : rest \in order_by(positions \ {k})} :
                       k \in first}

\* Lines 237-245: the answers the database can give to the query, the first
\* 20 rows of every order.
popular_queries(dataset_id) ==
    LET selected == {k \in DOMAIN query_history :
                        /\ query_history[k].dataset_id = dataset_id
                        /\ query_history[k].success = TRUE
                        /\ query_history[k].user_rating # None
                        /\ query_history[k].user_rating.value >= 4}
    IN {Take(rows, PopularLimit) : rows \in order_by(selected)}

\* Lines 247-260: the loop over the rows, seen_questions being the questions
\* met so far, lower-cased and stripped.
RECURSIVE unique_questions(_, _)
unique_questions(queries, seen_questions) ==
    IF queries = <<>> THEN <<>>
    ELSE LET query == Head(queries)
             question_lower == strip(lower(query.natural_language_query))
         IN IF question_lower \notin seen_questions
              THEN <<[question |-> query.natural_language_query,
                      rating |-> query.user_rating.value,
                      asked_count |-> 1]>>
                   \o unique_questions(Tail(queries), seen_questions \cup {question_lower})
              ELSE unique_questions(Tail(queries), seen_questions)

\* Lines 232-269, GET /popular-questions/<dataset_id>.
get_popular_questions(dataset_id) ==
    /\ http_request' = [route |-> "get_popular_questions", dataset_id |-> dataset_id]
    /\ \E queries \in popular_queries(dataset_id) :
          http_response' =
              [status |-> 200,
               dataset_id |-> dataset_id,
               popular_questions |-> Take(unique_questions(queries, {}), PopularQuestions)]
    /\ UNCHANGED <<database, query_history, id_seq>>
    /\ UNCHANGED gateway_vars
    /\ UNCHANGED <<classifier_vars, analyzer_vars, catalog_vars>>

\* A row as record_query and update_query_feedback leave it: recorded at
\* created_at, then rated (None: never rated).
rated_query(id, dataset_id, question, success, rating, created_at) ==
    with_feedback(QueryHistory([dataset_id |-> dataset_id,
                                natural_language_query |-> question,
                                success |-> success], id, created_at),
                  IF rating = None THEN EmptyDict ELSE [user_rating |-> rating])

\* The ways clients write the question that is asked again and again.
Spellings == <<<<"q">>, <<"Q">>, <<" ", "q">>, <<"q", " ">>>>

\* A long journal of one dataset: first queries that each ask a question of
\* their own and are rated 4, then the repeated question, rated 5; one
\* query a day.
LongJournal(others, repeats) ==
    [k \in 1..(others + repeats) |->
        IF k <= others
          THEN rated_query(k, "ds1", <<"x", Digits[(k \div 10) + 1], Digits[(k % 10) + 1]>>,
                           TRUE, Value(4), k)
          ELSE rated_query(k, "ds1", Spellings[((k - others) % Len(Spellings)) + 1],
                           TRUE, Value(5), k)]

\* The queries of the short journals: one question in three spellings, rated
\* or not, and a failed query and a query of another dataset.
ShortQueries ==
    ({<<"a", " ", "b">>, <<"A", " ", "b", " ">>, <<"a", " ", " ", "b">>}
        \X {"ds1"} \X {TRUE} \X {None, Value(4), Value(5)})
    \cup {<<<<"a", " ", "b">>, "ds1", FALSE, Value(5)>>,
           <<<<"a", " ", "b">>, "ds2", TRUE, Value(5)>>}

\* A short journal: any queries, on days that do not go back.
ShortJournals ==
    UNION {{[k \in 1..n |-> rated_query(k, queries[k][2], queries[k][1], queries[k][3],
                                        queries[k][4], days[k])] :
               queries \in [1..n -> ShortQueries],
               days \in {d \in [1..n -> 1..n] : \A i, j \in 1..n : i <= j => d[i] <= d[j]}} :
           n \in 0..MaxAsked}

\* The journals the popular questions are asked of.
PopularJournals ==
    ShortJournals
    \cup {LongJournal(others, repeats) : others \in 0..MaxOthers, repeats \in 0..MaxRepeats}

\* ------------------------------------------------------------ the catalog
\* The ids of the workspaces a sync is asked for: the stored workspace and
\* one the catalog does not have.
WorkspaceIds == {"ws1", "ws9"}

\* The columns of a workspace (section 3: id, name, description,
\* last-synced timestamp).
WorkspaceColumns == {"id", "name", "description", "last_synced"}

\* The catalog when the server starts: the workspace of the datasets that the
\* journal refers to, never synced; no table and no measure stored yet.
catalog_init ==
    /\ workspaces = [id \in {"ws1"} |->
                        [id |-> Value("ws1"), name |-> Value("Sales"),
                         description |-> None, last_synced |-> None]]
    /\ datasets = [id \in Datasets |->
                      [id |-> Value(id), workspace_id |-> Value("ws1"),
                       last_synced |-> None]]
    /\ catalog_tables = <<>>
    /\ catalog_measures = <<>>
    /\ sync_result = None
    /\ handler = None

\* Workspace(**data): a keyword that names no column raises TypeError; a
\* column that is not given is NULL.
Workspace(data) ==
    IF DOMAIN data \subseteq WorkspaceColumns
      THEN [key \in WorkspaceColumns |-> Get(data, key, None)]
      ELSE Raised

\* Mutant: the update sets every column, also those the request does not name.
updated_workspace_AllColumns(workspace, data) ==
    [key \in WorkspaceColumns |-> Get(data, key, None)]

\* Lines 141-143 of routes.py: every key of the request that the row has as
\* an attribute is set; the other keys are passed over.
updated_workspace(workspace, data) ==
    [key \in WorkspaceColumns |-> Get(data, key, workspace[key])]

\* Workspace.to_dict(), the body of the answer.
workspace_to_dict(workspace) ==
    [key \in WorkspaceColumns |-> workspace[key]]

\* The answer of a route that ended without an exception.
Answer(status, body) == [status |-> status, body |-> body]

\* Lines 132-155 of routes.py, POST /workspaces.  data['id'] raises KeyError
\* when the key is missing; a row is looked up by its primary key, updated
\* when it is there and built and added when it is not; a row without an id
\* is refused by the commit.  An exception is answered by the except branch,
\* which rolls the session back.  The status of line 150 is 200 in both
\* cases: workspace is bound to a row there.
create_workspace(data) ==
    /\ http_request' = [route |-> "create_workspace", data |-> data]
    /\ IF "id" \notin DOMAIN data
         THEN /\ http_response' = ServerError
              /\ UNCHANGED workspaces
         ELSE IF data["id"] # None /\ data["id"].value \in DOMAIN workspaces
           THEN LET id == data["id"].value
                    workspace == updated_workspace(workspaces[id], data)
                IN /\ workspaces' = [workspaces EXCEPT ![id] = workspace]
                   /\ http_response' = Answer(200, workspace_to_dict(workspace))
           ELSE IF data["id"] = None \/ Workspace(data) = Raised
             THEN /\ http_response' = ServerError
                  /\ UNCHANGED workspaces
             ELSE LET id == data["id"].value
                      workspace == Workspace(data)
                  IN /\ workspaces' =
                          [w \in DOMAIN workspaces \cup {id} |->
                              IF w = id THEN workspace ELSE workspaces[w]]
                     /\ http_response' = Answer(200, workspace_to_dict(workspace))
    /\ UNCHANGED <<datasets, catalog_tables, catalog_measures, sync_result, handler>>
    /\ UNCHANGED gateway_vars
    /\ UNCHANGED <<classifier_vars, analyzer_vars>>
    /\ UNCHANGED <<database, query_history, id_seq>>

\* The bodies POST /workspaces is sent: the stored workspace again, under a
\* new name and with a description; a new workspace, with and without a key
\* that is no column; a body without an id and one whose id is null.
WorkspaceRequests ==
    {[id |-> Value("ws1"), name |-> Value("Sales")],
     [id |-> Value("ws1"), name |-> Value("Retail"), description |-> Value("d")],
     [id |-> Value("ws2"), name |-> Value("Ops"), description |-> None],
     [id |-> Value("ws2"), owner |-> Value("me")],
     [name |-> Value("Sales")],
     [id |-> None, name |-> Value("Sales")]}

\* ---- the external model and the sync engine (section 4.4)
\* Tables the external model of the first dataset has.
MaxRows == 2

\* The rows the platform holds for the tables query: the first dataset has
\* MaxRows tables, the second dataset has an empty model.
ExternalTables(dataset_id) ==
    IF dataset_id = "ds1"
      THEN [k \in 1..MaxRows |->
               [TableName |-> Value(<<"T", Digits[k + 1]>>), Description |-> None]]
      ELSE <<>>

\* The rows the platform holds for the measures query: a measure the
\* classifier tags, a row whose name is missing, and a measure that brings
\* its own business area.
ExternalMeasures(dataset_id) ==
    IF dataset_id = "ds1"
      THEN <<[MeasureName |-> Value(<<"s", "u", "m">>),
              Expression |-> Value(<<"[", "x", "]">>)],
             [MeasureName |-> None, Expression |-> Value(<<"1">>)],
             [MeasureName |-> Value(<<"c", "o", "s", "t">>),
              Expression |-> Value(<<"2">>), BusinessArea |-> Value("Sales")]>>
      ELSE <<>>

\* What discover_dataset_schema can return for a dataset whose model does not
\* change: for either query its rows, or no rows when the call failed.
DiscoveredSchemas(dataset_id) ==
    {[tables |-> t, measures |-> m] :
        t \in {ExternalTables(dataset_id), <<>>},
        m \in {ExternalMeasures(dataset_id), <<>>}}

\* A discovered row that has the required name field.
has_name(row, field) == field \in DOMAIN row /\ row[field] # None

\* Mutant: a discovered table is inserted without a look at the stored rows.
upsert_table_InsertOnly(rows, dataset_id, row) ==
    Append(rows, [id |-> Len(rows) + 1, dataset_id |-> dataset_id,
                  name |-> row.TableName.value,
                  description |-> Get(row, "Description", None)])

\* Step 2: upsert Table by (datasetId, name): the mutable fields of the row
\* that is found are updated, else a row is inserted.
upsert_table(rows, dataset_id, row) ==
    LET found == {k \in DOMAIN rows : /\ rows[k].dataset_id = dataset_id
                                      /\ rows[k].name = row.TableName.value}
    IN IF found # {}
         THEN [k \in DOMAIN rows |->
                  IF k \in found
                    THEN [rows[k] EXCEPT !.description = Get(row, "Description", None)]
                    ELSE rows[k]]
         ELSE Append(rows, [id |-> Len(rows) + 1, dataset_id |-> dataset_id,
                            name |-> row.TableName.value,
                            description |-> Get(row, "Description", None)])

\* Steps 2 and 4: every discovered table row in turn; a row without a name
\* is skipped.
RECURSIVE upsert_tables(_, _, _)
upsert_tables(rows, dataset_id, discovered) ==
    IF discovered = <<>> THEN rows
    ELSE upsert_tables(IF has_name(Head(discovered), "TableName")
                         THEN upsert_table(rows, dataset_id, Head(discovered))
                         ELSE rows,
                       dataset_id, Tail(discovered))

\* Step 3: the Measure row of a discovered measure: the classifier sets the
\* two tags unless the row carries its own.
Measure(id, dataset_id, row) ==
    LET tags == categorize_measure_by_name(row.MeasureName.value)
    IN [id |-> id, dataset_id |-> dataset_id,
        name |-> row.MeasureName.value,
        expression |-> Get(row, "Expression", None),
        measure_type |-> Get(row, "MeasureType", Value(tags.measure_type)),
        business_area |-> Get(row, "BusinessArea", Value(tags.business_area))]

\* Step 3: upsert Measure by (datasetId, name).
upsert_measure(rows, dataset_id, row) ==
    LET found == {k \in DOMAIN rows : /\ rows[k].dataset_id = dataset_id
                                      /\ rows[k].name = row.MeasureName.value}
    IN IF found # {}
         THEN [k \in DOMAIN rows |->
                  IF k \in found THEN Measure(rows[k].id, dataset_id, row) ELSE rows[k]]
         ELSE Append(rows, Measure(Len(rows) + 1, dataset_id, row))

\* Steps 3 and 4: every discovered measure row in turn; a row without a name
\* is skipped.
RECURSIVE upsert_measures(_, _, _)
upsert_measures(rows, dataset_id, discovered) ==
    IF discovered = <<>> THEN rows
    ELSE upsert_measures(IF has_name(Head(discovered), "MeasureName")
                           THEN upsert_measure(rows, dataset_id, Head(discovered))
                           ELSE rows,
                         dataset_id, Tail(discovered))

\* SyncResult{success, tablesUpserted, measuresUpserted,
\* relationshipsUpserted, error?}, with the rows that were skipped.
SyncResult(success, tables_upserted, measures_upserted, skipped, error) ==
    [success |-> success,
     tables_upserted |-> tables_upserted,
     measures_upserted |-> measures_upserted,
     relationships_upserted |-> 0,
     skipped |-> skipped,
     error |-> error]

\* The number of rows with (without) the name field.
named(discovered, field) ==
    Cardinality({k \in DOMAIN discovered : has_name(discovered[k], field)})

\* syncDataset(datasetId), steps 1 to 5, on the stored rows stored.tables and
\* stored.measures and with the schema the gateway returned: the rows after
\* the sync and the SyncResult.  A dataset that is not in the catalog has no
\* workspace to resolve; no table and no measure discovered is a failure.
\* The engine writes no timestamp.
metadata_service_sync_dataset(stored, dataset_id, discovered) ==
    IF dataset_id \notin DOMAIN datasets
      THEN [tables |-> stored.tables, measures |-> stored.measures,
            result |-> SyncResult(FALSE, 0, 0, 0, Value("NotFound"))]
    ELSE IF discovered.tables = <<>> /\ discovered.measures = <<>>
      THEN [tables |-> stored.tables, measures |-> stored.measures,
            result |-> SyncResult(FALSE, 0, 0, 0, Value("UpstreamUnavailable"))]
    ELSE [tables |-> upsert_tables(stored.tables, dataset_id, discovered.tables),
          measures |-> upsert_measures(stored.measures, dataset_id, discovered.measures),
          result |-> SyncResult(TRUE,
                                named(discovered.tables, "TableName"),
                                named(discovered.measures, "MeasureName"),
                                Len(discovered.tables) + Len(discovered.measures)
                                  - named(discovered.tables, "TableName")
                                  - named(discovered.measures, "MeasureName"),
                                None)]

\* The ids of the datasets the requests and the platform name: those of the
\* catalog and one the catalog does not have.
DatasetIds == Datasets \cup {"ds9"}

\* The stored rows the sync engine works on.
Stored == [tables |-> catalog_tables, measures |-> catalog_measures]

\* Lines 154-180 of dataset_routes.py, POST /<dataset_id>/sync.  get_or_404
\* raises NotFound for an id without a row, and the except branch answers.
\* The engine has stored its rows when it returns.  When the result reports
\* success, line 164 evaluates datetime.utcnow(): the module binds no name
\* datetime (lines 6-12 import none), so the statement raises NameError
\* before anything is assigned, and the except branch answers; when the
\* result reports a failure, lines 173-176 answer.  With the request the
\* model keeps the time and the schema the gateway returned to the engine.
sync_dataset(dataset_id) ==
    /\ IF dataset_id \notin DOMAIN datasets
         THEN /\ http_request' = [route |-> "sync_dataset", dataset_id |-> dataset_id,
                                  utcnow |-> now, discovered |-> None]
              /\ http_response' = ServerError
              /\ UNCHANGED <<catalog_tables, catalog_measures, sync_result>>
         ELSE \E discovered \in DiscoveredSchemas(dataset_id) :
              \E synced \in {metadata_service_sync_dataset(Stored, dataset_id, discovered)} :
                   /\ http_request' = [route |-> "sync_dataset",
                                       dataset_id |-> dataset_id,
                                       utcnow |-> now, discovered |-> discovered]
                   /\ catalog_tables' = synced.tables
                   /\ catalog_measures' = synced.measures
                   /\ sync_result' = synced.result
                   /\ http_response' =
                        IF synced.result.success
                          THEN ServerError
                          ELSE Answer(500, [status |-> "error",
                                            error |-> synced.result.error])
    /\ UNCHANGED <<workspaces, datasets, handler>>
    /\ UNCHANGED gateway_vars
    /\ UNCHANGED <<classifier_vars, analyzer_vars>>
    /\ UNCHANGED <<database, query_history, id_seq>>

\* syncWorkspace, the loop over the listed datasets: syncDataset for each, on
\* the rows the one before left; a failure is kept as that dataset's outcome
\* and the loop goes on.
RECURSIVE sync_each(_, _, _)
sync_each(stored, listed, discovered) ==
    IF listed = <<>>
      THEN [tables |-> stored.tables, measures |-> stored.measures, outcomes |-> <<>>]
      ELSE LET one == metadata_service_sync_dataset(stored, Head(listed),
                                                    discovered[Head(listed)])
               rest == sync_each([tables |-> one.tables, measures |-> one.measures],
                                 Tail(listed), discovered)
           IN [tables |-> rest.tables, measures |-> rest.measures,
               outcomes |-> <<[dataset_id |-> Head(listed), result |-> one.result]>>
                              \o rest.outcomes]

\* syncWorkspace(workspaceId): listWorkspaceDatasets, then syncDataset for
\* each; the result carries the count of the datasets that synced and the
\* outcome of each, and reports success when at least one dataset synced.
metadata_service_sync_workspace(stored, listed, discovered) ==
    LET each == sync_each(stored, listed, discovered)
        datasets_synced ==
            Cardinality({k \in DOMAIN each.outcomes : each.outcomes[k].result.success})
    IN [tables |-> each.tables, measures |-> each.measures,
        result |-> [success |-> datasets_synced > 0,
                    datasets_synced |-> datasets_synced,
                    outcomes |-> each.outcomes,
                    error |-> IF datasets_synced > 0 THEN None
                              ELSE Value("no dataset synced")]]

\* What get_workspace_datasets lists for a workspace: nothing (also when the
\* call failed), and two datasets of which one has an empty model or is not
\* in the catalog.
ListedDatasets ==
    {<<>>, <<"ds1", "ds2">>, <<"ds2", "ds1">>, <<"ds9", "ds1">>}

\* The schemas the gateway returns in one sync of a workspace, by dataset.
DiscoveredByDataset ==
    {[d \in DatasetIds |-> IF d = "ds1" THEN s ELSE CHOOSE e \in DiscoveredSchemas(d) : TRUE] :
        s \in DiscoveredSchemas("ds1")}

\* Mutant: the workspace is stamped whatever the result reports.
stamped_Always(workspace, engine_result, utcnow) ==
    [workspace EXCEPT !.last_synced = Value(utcnow)]

\* Lines 166-167 of routes.py: workspace.last_synced = datetime.utcnow() when
\* result['success'].
stamped(workspace, engine_result, utcnow) ==
    IF engine_result.success THEN [workspace EXCEPT !.last_synced = Value(utcnow)]
    ELSE workspace

\* Lines 157-183 of routes.py, POST /<workspace_id>/sync.  get_or_404 raises
\* NotFound for an id without a row, and the except branch answers.  The
\* module binds datetime in line 7.  With the request the model keeps the
\* time, the datasets the gateway listed and the schemas it returned.
sync_workspace(workspace_id) ==
    /\ IF workspace_id \notin DOMAIN workspaces
         THEN /\ http_request' = [route |-> "sync_workspace",
                                  workspace_id |-> workspace_id, utcnow |-> now,
                                  listed |-> None, discovered |-> None]
              /\ http_response' = ServerError
              /\ UNCHANGED <<workspaces, catalog_tables, catalog_measures, sync_result>>
         ELSE \E listed \in ListedDatasets :
              \E discovered \in DiscoveredByDataset :
              \E synced \in {metadata_service_sync_workspace(Stored, listed, discovered)} :
                   /\ http_request' = [route |-> "sync_workspace",
                                       workspace_id |-> workspace_id, utcnow |-> now,
                                       listed |-> List(listed),
                                       discovered |-> discovered]
                   /\ catalog_tables' = synced.tables
                   /\ catalog_measures' = synced.measures
                   /\ sync_result' = synced.result
                   /\ workspaces' = [workspaces EXCEPT ![workspace_id] =
                                        stamped(@, synced.result, now)]
                   /\ http_response' =
                        IF synced.result.success
                          THEN Answer(200, [status |-> "success",
                                            details |-> synced.result])
                          ELSE Answer(500, [status |-> "error",
                                            error |-> synced.result.error])
    /\ UNCHANGED <<datasets, handler>>
    /\ UNCHANGED gateway_vars
    /\ UNCHANGED <<classifier_vars, analyzer_vars>>
    /\ UNCHANGED <<database, query_history, id_seq>>

\* ---- the context routes
\* The stored rows of a dataset that a context bundle counts.
measure_rows(dataset_id) ==
    {k \in DOMAIN catalog_measures : catalog_measures[k].dataset_id = dataset_id}
table_rows(dataset_id) ==
    {k \in DOMAIN catalog_tables : catalog_tables[k].dataset_id = dataset_id}

\* The ContextBundle of sections 4.5 and 6, of which the model keeps the
\* metadata {measureCount, tableCount, ruleCount, historyCount, truncated}.
ContextBundle(dataset_id, measure_count, table_count) ==
    [dataset_id |-> dataset_id,
     measure_count |-> measure_count,
     table_count |-> table_count,
     rule_count |-> 0,
     history_count |-> 0,
     truncated |-> FALSE]

\* What a call of the context service can do (sections 4.5, 6 and 7): raise
\* NotFound for a dataset that is not in the catalog, raise when the store
\* fails, or return a bundle of some of the measures and tables of the
\* dataset (those relevant to the query; all of them for the overview).
context_outcomes(dataset_id, overview) ==
    IF dataset_id \notin DOMAIN datasets THEN {Raised}
    ELSE {Raised}
         \cup {ContextBundle(dataset_id, m, t) :
                 m \in IF overview THEN {Cardinality(measure_rows(dataset_id))}
                       ELSE 0..Cardinality(measure_rows(dataset_id)),
                 t \in IF overview THEN {Cardinality(table_rows(dataset_id))}
                       ELSE 0..Cardinality(table_rows(dataset_id))}

\* What getMeasureContext can do: raise NotFound for a measure the dataset
\* does not have, raise when the store fails, or return the measure's context.
measure_context_outcomes(dataset_id, name) ==
    IF \E k \in measure_rows(dataset_id) : catalog_measures[k].name = name
      THEN {Raised, [dataset_id |-> dataset_id, measure |-> name]}
      ELSE {Raised}

\* Python's truth value of a text of the request: None and the empty text
\* are falsy.
truthy(text, empty) == text # None /\ text.value # empty

\* Lines 196-219 of dataset_routes.py, POST /generate.  A request without a
\* JSON object as body makes request.json or data.get raise; a request
\* without dataset_id or query is answered 400; an exception of the service
\* is answered by the except branch.  With the request the model keeps what
\* the service did.
generate_context(data) ==
    /\ IF data = None
         THEN /\ http_request' = [route |-> "generate_context", data |-> data,
                                  outcome |-> None]
              /\ http_response' = ServerError
         ELSE IF \/ ~truthy(Get(data, "dataset_id", None), "")
                 \/ ~truthy(Get(data, "query", None), <<>>)
           THEN /\ http_request' = [route |-> "generate_context", data |-> data,
                                    outcome |-> None]
                /\ http_response' =
                     Answer(400, [error |-> "dataset_id and query are required"])
           ELSE \E context \in context_outcomes(data["dataset_id"].value, FALSE) :
                  /\ http_request' = [route |-> "generate_context", data |-> data,
                                      outcome |-> context]
                  /\ http_response' =
                       IF context = Raised THEN ServerError ELSE Answer(200, context)
    /\ UNCHANGED catalog_vars
    /\ UNCHANGED gateway_vars
    /\ UNCHANGED <<classifier_vars, analyzer_vars>>
    /\ UNCHANGED <<database, query_history, id_seq>>

\* Lines 221-230 of dataset_routes.py, GET /dataset/<dataset_id>.
get_dataset_context(dataset_id) ==
    /\ \E context \in context_outcomes(dataset_id, TRUE) :
          /\ http_request' = [route |-> "get_dataset_context",
                              dataset_id |-> dataset_id, outcome |-> context]
          /\ http_response' =
               IF context = Raised THEN ServerError ELSE Answer(200, context)
    /\ UNCHANGED catalog_vars
    /\ UNCHANGED gateway_vars
    /\ UNCHANGED <<classifier_vars, analyzer_vars>>
    /\ UNCHANGED <<database, query_history, id_seq>>

\* Lines 232-241 of dataset_routes.py, GET /measure/<dataset_id>/<measure_name>.
get_measure_context(dataset_id, name) ==
    /\ \E context \in measure_context_outcomes(dataset_id, name) :
          /\ http_request' = [route |-> "get_measure_context",
                              dataset_id |-> dataset_id, measure_name |-> name,
                              outcome |-> context]
          /\ http_response' =
               IF context = Raised THEN ServerError ELSE Answer(200, context)
    /\ UNCHANGED catalog_vars
    /\ UNCHANGED gateway_vars
    /\ UNCHANGED <<classifier_vars, analyzer_vars>>
    /\ UNCHANGED <<database, query_history, id_seq>>

\* The bodies POST /generate is sent: none, an empty object, an object
\* without a query or with an empty one, and a query on a dataset that is or
\* is not in the catalog.
ContextRequests ==
    {None, EmptyDict,
     [dataset_id |-> Value("ds1")],
     [dataset_id |-> Value("ds1"), query |-> Value(<<>>)],
     [dataset_id |-> Value("ds1"), query |-> Value(<<"s", "u", "m">>)],
     [dataset_id |-> Value("ds9"), query |-> Value(<<"s", "u", "m">>),
      query_type |-> Value("general")]}

\* The measure names GET /measure/... is sent: a measure of the platform and
\* a name no measure has.
ContextMeasureNames == {<<"s", "u", "m">>, <<"n", "o">>}

vars == <<gateway_vars, classifier_vars, analyzer_vars, journal_vars, catalog_vars>>

Init == gateway_init /\ classifier_init /\ analyzer_init /\ journal_init /\ catalog_init

\* The token lifecycle: every thread calls get_access_token, at any time.
Next ==
    \/ \E c \in Callers : Call(c, "get_access_token")
    \/ \E c \in Callers : get_access_token_check(c)
    \/ \E c \in Callers : acquire_token_send(c)
    \/ \E c \in Callers, answer \in TokenAnswers : acquire_token_reply(c, answer)
    \/ \E c \in Callers : Return(c)
    \/ Tick

Spec == Init /\ [][Next]_vars

\* The gateway's operations: thread 1 calls any method of the client while
\* thread 2 calls get_access_token.  The token cache is the only state the
\* threads share, and only get_access_token reads or writes it, so another
\* thread reaches the operation of thread 1 through these calls alone.
NextGateway ==
    \/ \E o \in Ops : Call(1, o)
    \/ \E c \in Callers \cap {2} : Call(c, "get_access_token")
    \/ \E c \in Callers : get_access_token_check(c)
    \/ \E c \in Callers : acquire_token_send(c)
    \/ \E c \in Callers, answer \in TokenAnswers : acquire_token_reply(c, answer)
    \/ \E c \in Callers : \E r \in ResponsesWith(BodiesOf(op[c])) : remote_get(c, r)
    \/ \E c \in Callers : \E r \in ResponsesWith(QueryBodies("tables")
                                                   \cup QueryBodies("measures")) :
          discover_dataset_schema_query(c, r)
    \/ \E c \in Callers : Return(c)
    \/ Tick

SpecGateway == Init /\ [][NextGateway]_vars

\* The classifier: categorize_measure_by_name is called with a name, and may
\* be called with it again; the client is not touched.
InitClassify ==
    /\ credentials = CredentialNames
    /\ token_cache = EmptyCache
    /\ now = 0
    /\ idp_requests = 0
    /\ gateway_idle
    /\ classifier_input
    /\ analyzer_init
    /\ journal_init
    /\ catalog_init

NextClassify == categorize

SpecClassify == InitClassify /\ [][NextClassify]_vars

\* A configured client that no thread is using.
gateway_unused ==
    /\ credentials = CredentialNames
    /\ token_cache = EmptyCache
    /\ now = 0
    /\ idp_requests = 0
    /\ gateway_idle

\* The analyzer: extract_measure_dependencies is called with an expression,
\* and may be called with it again.
InitExtract ==
    /\ gateway_unused
    /\ classifier_init
    /\ analyzer_input
    /\ journal_init
    /\ catalog_init

NextExtract == extract

SpecExtract == InitExtract /\ [][NextExtract]_vars

\* The journal: clients record queries and send feedback on the first and on
\* the last id of the run, on either database, while time passes.
InitJournal ==
    /\ gateway_unused
    /\ classifier_init
    /\ analyzer_init
    /\ database \in Dialects
    /\ query_history = <<>>
    /\ id_seq = 0
    /\ http_request = None
    /\ http_response = None
    /\ catalog_init

NextJournal ==
    \/ \E data \in RecordRequests : record_query(data)
    \/ \E query_id \in {1, MaxEntries} :
          \E data \in FeedbackRequests : update_query_feedback(query_id, data)
    \/ next_day

SpecJournal == InitJournal /\ [][NextJournal]_vars

\* The analytics: clients record queries while time passes, and the analytics
\* are asked for.
InitAnalytics ==
    /\ gateway_unused
    /\ classifier_init
    /\ analyzer_init
    /\ journal_init
    /\ catalog_init

NextAnalytics ==
    \/ \E data \in AnalyticsRecordRequests : record_query(data)
    \/ \E args \in AnalyticsArgs : get_query_analytics(args)
    \/ next_day

SpecAnalytics == InitAnalytics /\ [][NextAnalytics]_vars

\* The popular questions: they are asked of a journal that clients have
\* filled and rated before.
InitPopular ==
    /\ credentials = CredentialNames
    /\ token_cache = EmptyCache
    /\ idp_requests = 0
    /\ gateway_idle
    /\ classifier_init
    /\ analyzer_init
    /\ database = "postgresql"
    /\ query_history \in PopularJournals
    /\ id_seq = Len(query_history)
    /\ now = IF query_history = <<>> THEN 0
             ELSE query_history[Len(query_history)].created_at
    /\ http_request = None
    /\ http_response = None
    /\ catalog_init

NextPopular == \E dataset_id \in Datasets : get_popular_questions(dataset_id)

SpecPopular == InitPopular /\ [][NextPopular]_vars

\* The catalog: clients create and update workspaces and ask for the sync of
\* datasets and of workspaces, while time passes.
InitCatalog ==
    /\ gateway_unused
    /\ classifier_init
    /\ analyzer_init
    /\ journal_init
    /\ catalog_init

NextCatalog ==
    \/ \E data \in WorkspaceRequests : create_workspace(data)
    \/ \E dataset_id \in DatasetIds : sync_dataset(dataset_id)
    \/ \E workspace_id \in WorkspaceIds : sync_workspace(workspace_id)
    \/ next_day

SpecCatalog == InitCatalog /\ [][NextCatalog]_vars

\* The inbound operations: clients call the eight operations of the service,
\* in any order, on datasets and workspaces that are and are not in the
\* catalog, while the gateway and the store may fail.
InboundRecordRequests ==
    {[dataset_id |-> "ds1", natural_language_query |-> <<"q">>],
     [dataset_id |-> "ds1"]}

InitInbound ==
    /\ gateway_unused
    /\ classifier_init
    /\ analyzer_init
    /\ journal_init
    /\ catalog_init

NextInbound ==
    \/ \E dataset_id \in {"ds1", "ds9"} : sync_dataset(dataset_id)
    \/ \E workspace_id \in WorkspaceIds : sync_workspace(workspace_id)
    \/ \E data \in ContextRequests : generate_context(data)
    \/ \E dataset_id \in {"ds1", "ds9"} : get_dataset_context(dataset_id)
    \/ \E dataset_id \in {"ds1", "ds9"} :
          \E name \in ContextMeasureNames : get_measure_context(dataset_id, name)
    \/ \E data \in InboundRecordRequests : record_query(data)
    \/ \E args \in {EmptyDict, [days |-> <<"w">>]} : get_query_analytics(args)
    \/ \E dataset_id \in {"ds1"} : get_popular_questions(dataset_id)

SpecInbound == InitInbound /\ [][NextInbound]_vars

\* The analytics under load: one thread serves GET /analytics statement by
\* statement while other threads record queries.
InitAnalyticsRace ==
    /\ gateway_unused
    /\ classifier_init
    /\ analyzer_init
    /\ journal_init
    /\ catalog_init

NextAnalyticsRace ==
    \/ \E data \in RaceRecordRequests : record_query(data)
    \/ \E args \in AnalyticsArgs : count_total_queries(args)
    \/ count_successful_queries
    \/ analytics_answer
    \/ next_day

SpecAnalyticsRace == InitAnalyticsRace /\ [][NextAnalyticsRace]_vars

\* ============================================================ claims
\* The vocabulary of the claims, in their own words.
\* The gateway is configured: tenant id, client id and client secret are set.
Configured == \A name \in CredentialNames : name \in credentials
\* The state of the access-token lifecycle.
TokenState ==
    IF "token" \notin DOMAIN token_cache THEN "Unissued"
    ELSE IF token_cache["token"].expires_at > now THEN "Valid"
    ELSE "Expired"
\* A token, as get_access_token returns it.
TokenValue(n) == [kind |-> "str", access_token |-> n]
\* The lifetime the provider reported in its answer (3600 s when it named none).
ReportedLifetime(answer) ==
    IF "expires_in" \in DOMAIN answer THEN answer.expires_in ELSE 3600
\* The absent/empty result of each operation.
AbsentResult(o) ==
    IF o = "get_workspace_datasets" THEN [kind |-> "list", items |-> <<>>]
    ELSE IF o = "discover_dataset_schema" THEN [tables |-> <<>>, measures |-> <<>>]
    ELSE [kind |-> "None"]
\* Caller c has ended an operation (not get_access_token) that had a token.
EndedWithToken(c) ==
    pc[c] = "done" /\ op[c] # "get_access_token" /\ token[c] # 0

\* C1 (as claimed; the code violates it): concurrent callers that find the
\* cache Unissued or Expired refresh it one at a time, so that never two token
\* requests are on their way to the identity provider at once.
C1_RefreshIsExclusive ==
    \A a, b \in Callers : a # b => ~(request[a] # 0 /\ request[b] # 0)

\* C2: a get_access_token on a configured client that finds the cache Valid
\* returns exactly the cached token, sends no token request and leaves the
\* cache alone; one that finds it Unissued or Expired does not return at the
\* check, and whatever token a call returns is the cached Valid one or the one
\* the provider just gave to this call (never an expired cached token).
C2_CachedTokenReturned ==
    [][\A c \in Callers :
         /\ (op[c] = "get_access_token" /\ pc[c] = "check" /\ pc'[c] # "check"
               /\ Configured)
              => IF TokenState = "Valid"
                   THEN /\ pc'[c] = "done"
                        /\ ret'[c] = TokenValue(token_cache["token"].access_token)
                        /\ idp_requests' = idp_requests
                        /\ sent'[c] = 0
                        /\ token_cache' = token_cache
                   ELSE pc'[c] # "done"
         /\ (op[c] = "get_access_token" /\ pc[c] # "done" /\ pc'[c] = "done"
               /\ ret'[c] # None)
              => \/ /\ TokenState = "Valid"
                    /\ ret'[c] = TokenValue(token_cache["token"].access_token)
                 \/ /\ pc[c] = "wait"
                    /\ ret'[c] = TokenValue(request[c])]_vars

\* C2's case: a call has returned a token without sending a request.
C2_Witness ==
    \E c \in Callers :
        /\ op[c] = "get_access_token" /\ pc[c] = "done"
        /\ ret[c] # None /\ sent[c] = 0 /\ TokenState = "Valid"

\* C3 (as claimed; the code violates it): a call that finds the cache Unissued
\* or Expired sends one token request; when the provider answers with a token
\* the cache holds that token with expires_at = issue time + reported
\* lifetime and the call returns it; and the state is then Valid: the cached
\* token stays the cached token until its expiry, so that every following
\* call before that expiry returns it.
C3_RefreshMakesValid ==
    [][/\ \A c \in Callers :
            (op[c] = "get_access_token" /\ pc[c] = "wait" /\ pc'[c] # "wait"
               /\ result'[c].kind = "token")
              => /\ sent[c] = 1 /\ sent'[c] = 1
                 /\ token_cache' =
                      [token |-> [access_token |-> request[c],
                                  expires_at |-> now + ReportedLifetime(result'[c])]]
                 /\ pc'[c] = "done"
                 /\ ret'[c] = TokenValue(request[c])
       /\ (TokenState = "Valid" /\ now' < token_cache["token"].expires_at)
              => /\ "token" \in DOMAIN token_cache'
                 /\ token_cache'["token"].access_token
                      = token_cache["token"].access_token]_vars

\* C4: when the provider answers with a result without access_token or the
\* request raises, get_access_token ends with None (the exception is caught),
\* has sent its one request and no second one, and leaves the cache as it was.
C4_ProviderErrorNoToken ==
    [][\A c \in Callers :
         (op[c] = "get_access_token" /\ pc[c] = "wait" /\ pc'[c] # "wait"
            /\ result'[c].kind \in {"error", "exception"})
           => /\ pc'[c] = "done"
              /\ ret'[c] = [kind |-> "None"]
              /\ token_cache' = token_cache
              /\ idp_requests' = idp_requests
              /\ sent[c] = 1 /\ sent'[c] = 1
              /\ TokenState' = TokenState]_vars

\* C4's case: a call has ended on a provider error while the cache held the
\* (expired) token of an earlier refresh.
C4_Witness ==
    \E c \in Callers :
        /\ pc[c] = "done" /\ result[c].kind \in {"error", "exception"}
        /\ ret[c] = None /\ TokenState = "Expired"

\* C5: on an unconfigured gateway no request ever leaves for the identity
\* provider or the BI platform, and every operation ends at once with its
\* absent/empty result (None for get_access_token).
C5_UnconfiguredFailsFast ==
    ~Configured =>
        /\ idp_requests = 0
        /\ \A c \in Callers :
             /\ calls[c] = <<>> /\ sent[c] = 0 /\ request[c] = 0
             /\ pc[c] \in {"idle", "check", "done"}
             /\ pc[c] = "done" => ret[c] = AbsentResult(op[c])

\* C5's case: discover_dataset_schema has ended on a gateway with one
\* credential missing.
C5_Witness ==
    /\ credentials = CredentialNames \ {"POWERBI_CLIENT_SECRET"}
    /\ pc[1] = "done" /\ op[1] = "discover_dataset_schema"

QueryRaised(call) == call.outcome \in {"transport_error", "not_json"}

\* C7 (amended): discover_dataset_schema with a token posts to the dataset's
\* query-execution endpoint only, the tables query first and the measures
\* query second, and stops at the first request that raises; when none
\* raised it has issued exactly the two and returns the raw rows of each
\* under its key, when one raised it returns empty tables and measures.  Its
\* steps write nothing but the locals of the call.
C7_State ==
    \A c \in Callers :
        op[c] = "discover_dataset_schema"
          => /\ Len(calls[c]) <= 2
             /\ \A i \in DOMAIN calls[c] :
                  /\ calls[c][i].endpoint
                       = "POST /groups/{id}/datasets/{id}/executeQueries"
                  /\ calls[c][i].query = IF i = 1 THEN "tables" ELSE "measures"
                  /\ i < Len(calls[c]) => ~QueryRaised(calls[c][i])
             /\ EndedWithToken(c)
                  => IF QueryRaised(calls[c][Len(calls[c])])
                       THEN ret[c] = [tables |-> <<>>, measures |-> <<>>]
                       ELSE /\ Len(calls[c]) = 2
                            /\ ret[c] = [tables |-> calls[c][1].rows,
                                         measures |-> calls[c][2].rows]
C7_Frame ==
    \A c \in Callers :
        (op[c] = "discover_dataset_schema" /\ calls'[c] # calls[c])
          => /\ token_cache' = token_cache
             /\ idp_requests' = idp_requests
             /\ credentials' = credentials
             /\ \A d \in Callers \ {c} :
                  /\ pc'[d] = pc[d] /\ ret'[d] = ret[d] /\ calls'[d] = calls[d]
                  /\ schema'[d] = schema[d] /\ token'[d] = token[d]
RECURSIVE LowerCased(_)
LowerCased(str) ==
    IF str = <<>> THEN <<>>
    ELSE LET ch == Head(str)
             up == {k \in DOMAIN UpperCase : UpperCase[k] = ch}
         IN <<IF up = {} THEN ch ELSE LowerCase[CHOOSE k \in up : TRUE]>>
                \o LowerCased(Tail(str))
Contains(str, keyword) ==
    \E before \in 0..(Len(str) - Len(keyword)) :
        \A k \in 1..Len(keyword) : str[before + k] = keyword[k]
ContainsAny(str, keywords) == \E keyword \in keywords : Contains(str, keyword)
TypeRules ==
    <<[label |-> "Time Intelligence", keywords |-> {<<"y", "t", "d">>, <<"m", "t", "d">>, <<"y", "o", "y">>, <<"m", "o", "m">>}],
      [label |-> "Ratio", keywords |-> {<<"%">>, <<"p", "e", "r", "c", "e", "n", "t">>, <<"r", "a", "t", "i", "o">>}],
      [label |-> "Average", keywords |-> {<<"a", "v", "g">>, <<"a", "v", "e", "r", "a", "g", "e">>}],
      [label |-> "Sum", keywords |-> {<<"s", "u", "m">>, <<"t", "o", "t", "a", "l">>}],
      [label |-> "Count", keywords |-> {<<"c", "o", "u", "n", "t">>, <<"d", "i", "s", "t", "i", "n", "c", "t">>}]>>
AreaRules ==
    <<[label |-> "Sales", keywords |-> {<<"r", "e", "v", "e", "n", "u", "e">>, <<"s", "a", "l", "e", "s">>, <<"i", "n", "c", "o", "m", "e">>}],
      [label |-> "Finance", keywords |-> {<<"c", "o", "s", "t">>, <<"e", "x", "p", "e", "n", "s", "e">>}],
      [label |-> "Finance", keywords |-> {<<"p", "r", "o", "f", "i", "t">>, <<"m", "a", "r", "g", "i", "n">>}],
      [label |-> "Customer", keywords |-> {<<"c", "u", "s", "t", "o", "m", "e", "r">>, <<"c", "l", "i", "e", "n", "t">>}],
      [label |-> "Operations", keywords |-> {<<"i", "n", "v", "e", "n", "t", "o", "r", "y">>, <<"s", "t", "o", "c", "k">>}]>>
\* The label of the first rule of the list that matches, or the default.
FirstMatch(rules, str, default) ==
    LET matching == {i \in DOMAIN rules : ContainsAny(str, rules[i].keywords)}
    IN IF matching = {} THEN default
       ELSE rules[CHOOSE i \in matching : \A k \in matching : i <= k].label
Categorized == category # None
MeasureTypes == {"Time Intelligence", "Ratio", "Average", "Sum", "Count", "Calculated"}
BusinessAreas == {"Sales", "Finance", "Customer", "Operations", "General"}

\* C8: the measure type is the label of the first rule, in the order time
\* intelligence, ratio, average, sum, count, that the lower-cased name
\* matches, and Calculated when none does; so a name with 'ytd' and 'total'
\* is Time Intelligence and 'Customer Retention Cost %' is Ratio.
C8_TypeIsFirstMatch ==
    Categorized =>
        /\ category.measure_type
             = FirstMatch(TypeRules, LowerCased(measure_name), "Calculated")
        /\ (Contains(LowerCased(measure_name), <<"y", "t", "d">>)
              /\ Contains(LowerCased(measure_name), <<"t", "o", "t", "a", "l">>))
             => category.measure_type = "Time Intelligence"
        /\ measure_name = <<"C", "u", "s", "t", "o", "m", "e", "r", " ", "R", "e", "t", "e", "n", "t", "i", "o", "n", " ", "C", "o", "s", "t", " ", "%">>
             => category.measure_type = "Ratio"

\* C8's case: a name with both 'ytd' (in capitals) and 'total' has been
\* classified as Time Intelligence.
C8_Witness ==
    /\ Categorized
    /\ Contains(measure_name, <<"Y", "T", "D">>) /\ Contains(measure_name, <<"t", "o", "t", "a", "l">>)
    /\ category.measure_type = "Time Intelligence"

\* C9: the business area is the label of the first rule, in the order sales,
\* cost, profit, customer, operations, that the lower-cased name matches, and
\* General when none does, whatever the measure type; so a name with
\* 'revenue' and 'cost' is Sales and one with 'cost' and 'customer' (and no
\* sales keyword) is Finance.
C9_AreaIsFirstMatch ==
    Categorized =>
        /\ category.business_area
             = FirstMatch(AreaRules, LowerCased(measure_name), "General")
        /\ (Contains(LowerCased(measure_name), <<"r", "e", "v", "e", "n", "u", "e">>)
              /\ Contains(LowerCased(measure_name), <<"c", "o", "s", "t">>))
             => category.business_area = "Sales"
        /\ (Contains(LowerCased(measure_name), <<"c", "o", "s", "t">>)
              /\ Contains(LowerCased(measure_name), <<"c", "u", "s", "t", "o", "m", "e", "r">>)
              /\ ~ContainsAny(LowerCased(measure_name), AreaRules[1].keywords))
             => category.business_area = "Finance"

\* C9's case: a name with 'customer' before 'cost' has been classified as
\* Finance.
C9_Witness ==
    /\ Categorized
    /\ measure_name = <<"c", "u", "s", "t", "o", "m", "e", "r">> \o <<"c", "o", "s", "t">>
    /\ category.business_area = "Finance"

\* C10: every call returns one of the six measure types and one of the five
\* business areas, also for the empty name; a name with none of the keywords
\* (the empty name too) is Calculated / General; and a second call with the
\* same name returns what the first returned.
C10_State ==
    Categorized =>
        /\ category \in [measure_type : MeasureTypes, business_area : BusinessAreas]
        /\ (\A i \in DOMAIN TypeRules :
              ~ContainsAny(LowerCased(measure_name), TypeRules[i].keywords)
              /\ ~ContainsAny(LowerCased(measure_name), AreaRules[i].keywords))
             => category = [measure_type |-> "Calculated", business_area |-> "General"]
C10_Again == Categorized => category' = category
C10_TotalAndDeterministic == []C10_State /\ [][C10_Again]_vars

\* C10's case: the empty name has been classified.
C10_Witness ==
    /\ measure_name = <<>>
    /\ category = [measure_type |-> "Calculated", business_area |-> "General"]

\* -------- the expression analyzer
\* The analyzer has returned for the expression.
Extracted == dependencies # None
\* The entry is a table name, a dot and a column name.
HasFormTableColumn(entry) ==
    \E dot \in 2..(Len(entry) - 1) : entry[dot] = "."
\* The bracket tokens of a string, as (opening, closing) positions: "[", at
\* least one character that is not "]", and "]".
BracketTokens(str) ==
    {t \in (1..Len(str)) \X (1..Len(str)) :
        /\ t[1] + 1 < t[2]
        /\ str[t[1]] = "["
        /\ str[t[2]] = "]"
        /\ \A k \in (t[1] + 1)..(t[2] - 1) : str[k] # "]"}
\* The bracket token is the [Column] of a 'Table'[Column]: a quoted, non-empty
\* table name ends right before it.
PartOfColumnPattern(str, t) ==
    /\ t[1] > 3
    /\ str[t[1] - 1] = "'"
    /\ \E q \in 1..(t[1] - 3) :
          /\ str[q] = "'"
          /\ \A k \in (q + 1)..(t[1] - 2) : str[k] # "'"
\* The names of the bracket tokens that stand on their own.
StandaloneNames(str) ==
    {SubSeq(str, t[1] + 1, t[2] - 1) :
        t \in {u \in BracketTokens(str) : ~PartOfColumnPattern(str, u)}}

\* C11: the column references extract_measure_dependencies returns have set
\* semantics (no reference appears twice, however often its pattern occurs in
\* the expression), and every one has the form table.column.
\* Violated: the list has one entry for every match, "'T'[c]'T'[c]" gives T.c twice.
C11_ColumnsAreSet ==
    Extracted =>
        /\ \A i, j \in DOMAIN dependencies.columns :
              dependencies.columns[i] = dependencies.columns[j] => i = j
        /\ \A i \in DOMAIN dependencies.columns :
              HasFormTableColumn(dependencies.columns[i])

\* C12: a bracket token that is part of a column pattern 'Table'[Column] is
\* reported as a column reference only: every measure reference is the name of
\* a bracket token that stands on its own.
\* Violated: the measure pattern matches every bracket token, "'T'[c]" gives
\* the measure c.
C12_ColumnTokenIsNoMeasure ==
    Extracted => dependencies.measures \subseteq StandaloneNames(expression)

\* -------- the query journal
\* The route that served the last request.
LastRoute == IF http_request = None THEN "none" ELSE http_request.route
\* The last request asked to record a query and named everything a record needs.
RecordAsked ==
    /\ LastRoute = "record_query"
    /\ {"dataset_id", "natural_language_query"} \subseteq DOMAIN http_request.data
\* The led-to reference the last request named (None: none).
AskedLedTo == Get(http_request.data, "led_to_query_id", None)
\* The entries of the journal, by position.
Entries == DOMAIN query_history
\* The entry the id names (the id is in the journal).
EntryOf(id) == query_history[CHOOSE k \in Entries : query_history[k].id = id]
\* The reference names an entry of the journal that was created before `at`.
ReferencesEarlierEntry(ref, at) ==
    \E k \in Entries :
        /\ query_history[k].id = ref.value
        /\ query_history[k].created_at < at

\* C13: record_query with a led_to_query_id that does not reference an
\* existing entry with an earlier creation timestamp still writes the entry,
\* with the reference dropped (led_to_query_id is null); the write does not
\* fail because of the reference.
\* Violated: the route stores the reference as it came, or the database
\* refuses the row.
C13_InvalidLedToDropped ==
    (/\ RecordAsked
     /\ AskedLedTo # None
     /\ ~ReferencesEarlierEntry(AskedLedTo, now))
    => /\ http_response.status = 201
       /\ http_response.query_id \in query_ids
       /\ EntryOf(http_response.query_id).led_to_query_id = None

\* C14: the led-to references form a forward-only chain: every led_to_query_id
\* that is not null names an entry of the journal whose creation time differs
\* strictly, in the same chronological direction for every reference; so no
\* entry references itself and no chain of references returns to its start.
\* Violated: an entry that references itself, or an id without an entry.
C14_ForwardOnlyChain ==
    LET linked == {k \in Entries : query_history[k].led_to_query_id # None}
        TargetIs(k, t) == query_history[t].id = query_history[k].led_to_query_id.value
    IN \/ \A k \in linked : \E t \in Entries :
              TargetIs(k, t) /\ query_history[t].created_at < query_history[k].created_at
       \/ \A k \in linked : \E t \in Entries :
              TargetIs(k, t) /\ query_history[t].created_at > query_history[k].created_at

\* The columns of an entry, and the ones feedback is kept in.
Columns ==
    {"id", "dataset_id", "natural_language_query", "execution_time_ms", "success",
     "measures_used", "led_to_query_id", "user_rating", "user_feedback",
     "was_helpful", "created_at"}
FeedbackColumns == {"user_rating", "user_feedback", "was_helpful"}
\* No two entries have the same id.
C15_CreatedOnce ==
    \A j, k \in Entries : query_history[j].id = query_history[k].id => j = k
\* One step of the journal: an entry that was there stays; a column of it
\* changes only when it is a feedback column, the request is a feedback
\* request for this entry and the column is named in the request.  An entry
\* that was not there is the one entry a record request appended, under the
\* next id of the sequence and the time of the clock.
C15_Step ==
    /\ \A k \in Entries :
          /\ k \in DOMAIN query_history'
          /\ \A col \in Columns :
                query_history'[k][col] # query_history[k][col] =>
                    /\ col \in FeedbackColumns
                    /\ http_request'.route = "update_query_feedback"
                    /\ http_request'.query_id = query_history[k].id
                    /\ col \in DOMAIN http_request'.data
    /\ \A k \in DOMAIN query_history' \ Entries :
          /\ http_request'.route = "record_query"
          /\ Len(query_history') = Len(query_history) + 1
          /\ query_history'[k].id = id_seq + 1
          /\ query_history'[k].id \notin query_ids
          /\ query_history'[k].created_at = now
\* C15: an entry is created exactly once, by record_query, with an id and a
\* creation timestamp the server assigns; afterwards it changes only through
\* update_query_feedback, which changes at most user_rating, user_feedback and
\* was_helpful of the entry it addresses, only those the request names, and
\* leaves every other column and every other entry as they were.
C15_OnlyFeedbackChanges == []C15_CreatedOnce /\ [][C15_Step]_vars
\* A feedback request that named user_rating only was served for an entry
\* that had user_feedback and was_helpful set, and the journal has another
\* entry; the request at creation had named an id and a time of its own.
C15_Witness ==
    /\ LastRoute = "update_query_feedback"
    /\ http_response.status = 200
    /\ DOMAIN http_request.data = {"user_rating"}
    /\ Len(query_history) > 1
    /\ LET entry == EntryOf(http_request.query_id)
       IN /\ entry.user_rating = http_request.data["user_rating"]
          /\ entry.user_feedback # None
          /\ entry.was_helpful # None

\* C16: the user_rating of every entry is null or an integer from 1 to 5.
\* Violated: the feedback route stores the rating the request gives, 0 or 6
\* as well.
C16_RatingInRange ==
    \A k \in Entries :
        \/ query_history[k].user_rating = None
        \/ query_history[k].user_rating.value \in 1..5

\* -------- the analytics
\* The last request asked for the analytics and was answered with them.
AnalyticsAnswered ==
    LastRoute = "get_query_analytics" /\ http_response.status = 200
\* The entries inside the time window of the answer: created at most
\* time_range_days days before the request.
Window ==
    {k \in Entries :
        query_history[k].created_at >= http_request.utcnow - http_response.time_range_days}
\* The entries of the window that have an execution time.
Timed == {k \in Window : query_history[k].execution_time_ms # None}
\* The sum of the execution times of a set of entries that have one.
RECURSIVE TimeSum(_)
TimeSum(entries) ==
    IF entries = {} THEN 0
    ELSE LET k == CHOOSE k \in entries : TRUE
         IN query_history[k].execution_time_ms.value + TimeSum(entries \ {k})

\* C17: the mean execution time of the analytics is the sum of
\* execution_time_ms divided by the count, both over exactly the entries of
\* the window whose execution_time_ms is not null; it is 0 when there is no
\* such entry.
C17_MeanOverTimedEntries ==
    AnalyticsAnswered =>
        LET mean == http_response.average_execution_time_ms
        IN /\ mean.den > 0
           /\ IF Timed = {} THEN mean.num = 0
              ELSE mean.num * Cardinality(Timed) = TimeSum(Timed) * mean.den
\* The window has an entry without an execution time and one with the time 3,
\* and the mean is 3.
C17_Witness ==
    /\ AnalyticsAnswered
    /\ Window \ Timed # {}
    /\ Cardinality(Timed) = 1
    /\ http_response.average_execution_time_ms = [num |-> 3, den |-> 1]

\* The measures_used lists of the entries, taken in the given order, as one list.
RECURSIVE FlattenedMeasures(_)
FlattenedMeasures(order) ==
    IF order = <<>> THEN <<>>
    ELSE LET used == query_history[Head(order)].measures_used
         IN (IF used = None THEN <<>> ELSE used.items) \o FlattenedMeasures(Tail(order))
\* The orders in which the entries of the window can be listed.
WindowOrders ==
    LET n == Cardinality(Window)
    IN {order \in [1..n -> Window] : \A i, j \in 1..n : order[i] = order[j] => i = j}
Occurrences(flat, name) == Cardinality({i \in DOMAIN flat : flat[i] = name})
FirstSeen(flat, name) ==
    CHOOSE i \in DOMAIN flat : flat[i] = name /\ \A j \in 1..(i - 1) : flat[j] # name
\* Name a stands before name b: it occurs more often, or as often and earlier.
RanksBefore(flat, a, b) ==
    \/ Occurrences(flat, a) > Occurrences(flat, b)
    \/ /\ Occurrences(flat, a) = Occurrences(flat, b)
       /\ FirstSeen(flat, a) < FirstSeen(flat, b)
\* The ranking lists names of the flattened list with their numbers of
\* occurrences, in the order RanksBefore, and is the head of that order: a
\* name it leaves out stands behind every name it lists, and it leaves a
\* name out only when it is full (10 names).
IsRankingOf(ranking, flat) ==
    LET names == {flat[i] : i \in DOMAIN flat}
        ranked == {ranking[i].measure : i \in DOMAIN ranking}
    IN /\ ranked \subseteq names
       /\ \A i \in DOMAIN ranking :
             ranking[i].count = Occurrences(flat, ranking[i].measure)
       /\ \A i, j \in DOMAIN ranking :
             i < j => RanksBefore(flat, ranking[i].measure, ranking[j].measure)
       /\ \A name \in names \ ranked :
             /\ Len(ranking) = TopMeasures
             /\ \A i \in DOMAIN ranking : RanksBefore(flat, ranking[i].measure, name)

\* C18: the ranking of the measures counts, for each name, its occurrences in
\* the flattened measures_used lists of all entries of the window, and orders
\* the names by falling count, names of equal count in the order in which the
\* flattened list has them first.
C18_RankingByCountThenFirstSeen ==
    AnalyticsAnswered =>
        \E order \in WindowOrders :
            IsRankingOf(http_response.top_measures, FlattenedMeasures(order))
\* The flattened list is c, b, a, a or a, c, b, a: a is ranked first with two
\* occurrences, then c and b with one each, c first as it was seen first.
C18_Witness ==
    /\ AnalyticsAnswered
    /\ http_response.top_measures =
          <<[measure |-> <<"a">>, count |-> 2],
            [measure |-> <<"c">>, count |-> 1],
            [measure |-> <<"b">>, count |-> 1]>>

\* -------- the popular questions
\* The last request asked for the popular questions and was answered with them.
PopularAnswered ==
    LastRoute = "get_popular_questions" /\ http_response.status = 200
\* The questions of the answer.
Popular == http_response.popular_questions
\* The qualifying entries: of the dataset asked for, successful, rated 4 or more.
Qualifying ==
    {k \in Entries :
        /\ query_history[k].dataset_id = http_request.dataset_id
        /\ query_history[k].success = TRUE
        /\ query_history[k].user_rating # None
        /\ query_history[k].user_rating.value >= 4}
\* Entry a stands before entry b: rated higher, or rated the same and newer.
Ahead(a, b) ==
    \/ query_history[a].user_rating.value > query_history[b].user_rating.value
    \/ /\ query_history[a].user_rating.value = query_history[b].user_rating.value
       /\ query_history[a].created_at > query_history[b].created_at
\* The lists of the entries by rating descending, then creation time descending.
RECURSIVE RankedOrders(_)
RankedOrders(entries) ==
    IF entries = {} THEN {<<>>}
    ELSE UNION {{<<k>> \o rest : rest \in RankedOrders(entries \ {k})} :
                   k \in {k \in entries : \A j \in entries : ~Ahead(j, k)}}
Blank == {" ", "\t", "\n"}
RECURSIVE TrimLeft(_)
TrimLeft(text) ==
    IF text # <<>> /\ Head(text) \in Blank THEN TrimLeft(Tail(text)) ELSE text
RECURSIVE TrimRight(_)
TrimRight(text) ==
    IF text # <<>> /\ text[Len(text)] \in Blank
      THEN TrimRight(SubSeq(text, 1, Len(text) - 1)) ELSE text
\* The case-insensitive trimmed text of a question.
QuestionKey(text) == TrimRight(TrimLeft(LowerCased(text)))
\* The entries of the list that are the first with their question key.
RECURSIVE FirstOccurrences(_, _)
FirstOccurrences(order, keys) ==
    IF order = <<>> THEN <<>>
    ELSE LET key == QuestionKey(query_history[Head(order)].natural_language_query)
         IN IF key \in keys THEN FirstOccurrences(Tail(order), keys)
            ELSE <<Head(order)>> \o FirstOccurrences(Tail(order), keys \cup {key})

\* C19: get_popular_questions returns the first min(10, k) elements of the
\* list made of ALL qualifying entries of the dataset, ordered by rating
\* descending then creation time descending, with only the first occurrence
\* of each case-insensitive trimmed question kept, k being the number of
\* distinct such questions; with 10 or more distinct questions it returns 10.
\* Violated: the route reads the first 20 entries of the order only; behind 20
\* entries that repeat one question, every other question is lost.
C19_FromAllQualifying ==
    PopularAnswered =>
        \E order \in RankedOrders(Qualifying) :
            LET expected == FirstOccurrences(order, {})
                n == IF Len(expected) < 10 THEN Len(expected) ELSE 10
            IN /\ Len(Popular) = n
               /\ \A i \in 1..n :
                     /\ Popular[i].question = query_history[expected[i]].natural_language_query
                     /\ Popular[i].rating = query_history[expected[i]].user_rating.value

\* The text without its whitespace, in lower case.
Squeezed(text) == SelectSeq(LowerCased(text), LAMBDA ch : ch \notin Blank)

\* C20, as stated: two qualifying questions of the dataset whose texts differ
\* only by letter case and/or whitespace get at most one entry of the answer.
\* Violated: "a b" and "a  b" differ by whitespace inside the text and get an
\* entry each.
C20_CaseWhitespaceCollapse ==
    PopularAnswered =>
        \A a, b \in Qualifying :
            LET text == query_history[a].natural_language_query
            IN (a # b /\ Squeezed(text) = Squeezed(query_history[b].natural_language_query))
               => Cardinality({i \in DOMAIN Popular :
                                  Squeezed(Popular[i].question) = Squeezed(text)}) <= 1

\* C20, amended: two qualifying questions of the dataset whose texts differ
\* only by letter case and/or whitespace at the two ends of the text get at
\* most one entry of the answer, and that entry is their first occurrence in
\* the rating/recency order.
C20_CaseTrimCollapse ==
    PopularAnswered =>
        \A a, b \in Qualifying :
            LET key == QuestionKey(query_history[a].natural_language_query)
                same == {e \in Qualifying :
                            QuestionKey(query_history[e].natural_language_query) = key}
                returned == {i \in DOMAIN Popular : QuestionKey(Popular[i].question) = key}
            IN (a # b /\ b \in same)
               => /\ Cardinality(returned) <= 1
                  /\ \A i \in returned :
                        \E e \in same :
                            /\ Popular[i].question = query_history[e].natural_language_query
                            /\ Popular[i].rating = query_history[e].user_rating.value
                            /\ \A other \in same : ~Ahead(other, e)
\* Two qualifying entries ask "a b" and "A b ", the newer one is "A b ", and
\* the answer has the one entry "A b ".
C20_Witness ==
    /\ PopularAnswered
    /\ \E a, b \in Qualifying :
          /\ query_history[a].natural_language_query = <<"a", " ", "b">>
          /\ query_history[b].natural_language_query = <<"A", " ", "b", " ">>
          /\ Ahead(b, a)
    /\ Len(Popular) = 1
    /\ Popular[1].question = <<"A", " ", "b", " ">>

\* The last request asked for the sync of a dataset of the catalog.
DatasetSyncAsked ==
    /\ LastRoute = "sync_dataset"
    /\ http_request.dataset_id \in DOMAIN datasets
\* The last sync of the engine completed, in full or in part.
SyncCompleted == sync_result # None /\ sync_result.success
\* The sync of an existing dataset completed: the dataset carries the time of
\* the request.
C21_Stamped ==
    (DatasetSyncAsked /\ SyncCompleted) =>
        datasets[http_request.dataset_id].last_synced = Value(http_request.utcnow)
\* One step: the last_synced of a dataset changes only in the sync route of
\* that dataset, and only when its sync completed.
C21_Step ==
    \A d \in DOMAIN datasets :
        datasets'[d].last_synced # datasets[d].last_synced =>
            /\ http_request'.route = "sync_dataset"
            /\ http_request'.dataset_id = d
            /\ sync_result'.success
\* C21: the last_synced of a dataset is written only by the sync route, which
\* stamps it whenever the sync of an existing dataset completes (fully or
\* partially); the call of the engine leaves it unchanged, and so does a
\* request whose sync did not complete.
\* Violated: when the sync completes, the route raises NameError (the module
\* binds no name datetime) and answers 500 without a stamp.
C21_StampedByRouteOnCompletion == []C21_Stamped /\ [][C21_Step]_vars

\* The stored workspaces, by the id they are stored under.
StoredWorkspaces == DOMAIN workspaces
\* No id is stored twice: every row carries the id it is found under.
C23_OnePerId == \A w \in StoredWorkspaces : workspaces[w].id = Value(w)
\* One step that ends with a create_workspace request as the last request.
\* A request that was not answered 200 stores nothing.  An answered request
\* for an id that was stored leaves the set of rows as it was and gives that
\* row the values the request names, every other column as before; for an id
\* that was not stored it adds one row with the values of the request.  No
\* other row changes, and a request that repeats the last one changes none.
C23_Step ==
    (http_request' # None /\ http_request'.route = "create_workspace") =>
        LET asked == http_request'.data
        IN /\ http_response'.status # 200 => workspaces' = workspaces
           /\ http_response'.status = 200 =>
                LET id == asked["id"].value
                IN /\ DOMAIN workspaces' = StoredWorkspaces \cup {id}
                   /\ \A w \in StoredWorkspaces \ {id} : workspaces'[w] = workspaces[w]
                   /\ \A col \in {"id", "name", "description", "last_synced"} :
                         workspaces'[id][col] =
                            IF col \in DOMAIN asked THEN asked[col]
                            ELSE IF id \in StoredWorkspaces THEN workspaces[id][col]
                            ELSE None
           /\ http_request' = http_request => workspaces' = workspaces
\* C23: create_workspace is an upsert keyed by the external id: there is at
\* most one stored workspace per id, a call whose id is stored updates the
\* fields of that row instead of inserting, and repeating a call leaves the
\* stored state as the first call left it.
C23_UpsertById == []C23_OnePerId /\ [][C23_Step]_vars
\* The stored workspace was sent again under its first name, without a
\* description, after it had been given a description and had been synced:
\* the name is the one of the request, description and last_synced stayed.
C23_Witness ==
    /\ LastRoute = "create_workspace"
    /\ http_response.status = 200
    /\ http_request.data = [id |-> Value("ws1"), name |-> Value("Sales")]
    /\ StoredWorkspaces = {"ws1", "ws2"}
    /\ workspaces["ws1"].name = Value("Sales")
    /\ workspaces["ws1"].description = Value("d")
    /\ workspaces["ws1"].last_synced # None

\* The rows stored for a dataset, by position.
TablesOf(d) == {k \in DOMAIN catalog_tables : catalog_tables[k].dataset_id = d}
MeasuresOf(d) == {k \in DOMAIN catalog_measures : catalog_measures[k].dataset_id = d}
\* No two Table rows and no two Measure rows share a (dataset, name) key.
C24_NoDuplicates ==
    /\ \A j, k \in DOMAIN catalog_tables :
          (/\ catalog_tables[j].dataset_id = catalog_tables[k].dataset_id
           /\ catalog_tables[j].name = catalog_tables[k].name) => j = k
    /\ \A j, k \in DOMAIN catalog_measures :
          (/\ catalog_measures[j].dataset_id = catalog_measures[k].dataset_id
           /\ catalog_measures[j].name = catalog_measures[k].name) => j = k
\* The last request was a sync of a dataset that completed, and this step is
\* a sync of the same dataset to which the platform gave the same rows.
SecondRun ==
    /\ DatasetSyncAsked /\ SyncCompleted
    /\ http_request'.route = "sync_dataset"
    /\ http_request'.dataset_id = http_request.dataset_id
    /\ http_request'.discovered = http_request.discovered
\* The second of two runs stores what the first run stored, and every row it
\* counts is a row that was there: no row is added.
C24_Step ==
    SecondRun =>
        LET d == http_request.dataset_id
        IN /\ catalog_tables' = catalog_tables
           /\ catalog_measures' = catalog_measures
           /\ sync_result'.success
           /\ sync_result'.tables_upserted = sync_result.tables_upserted
           /\ sync_result'.measures_upserted = sync_result.measures_upserted
           /\ sync_result'.tables_upserted <= Cardinality(TablesOf(d))
           /\ sync_result'.measures_upserted <= Cardinality(MeasuresOf(d))
\* C24: running syncDataset twice for the same dataset against unchanged
\* external data leaves the stored Table and Measure rows as the first run
\* left them, without a duplicate row for any (dataset, name) key, and the
\* counts of the second run stand for updates, not inserts.
C24_SyncIsIdempotent == []C24_NoDuplicates /\ [][C24_Step]_vars
\* On the last day a sync of the first dataset completed with all the rows of
\* the platform: every table and every named measure is stored once and
\* counted, the row without a name is skipped.
C24_Witness ==
    /\ DatasetSyncAsked /\ SyncCompleted
    /\ http_request.utcnow = MaxDays
    /\ http_request.discovered.tables # <<>>
    /\ http_request.discovered.measures # <<>>
    /\ sync_result.tables_upserted = Cardinality(TablesOf("ds1"))
    /\ sync_result.measures_upserted = Cardinality(MeasuresOf("ds1"))
    /\ sync_result.tables_upserted = MaxRows
    /\ sync_result.skipped = 1

\* The last request asked for the sync of a stored workspace.
WorkspaceSyncAsked ==
    /\ LastRoute = "sync_workspace"
    /\ http_request.workspace_id \in StoredWorkspaces
\* The datasets the gateway listed for the last workspace sync, in order.
Listed == http_request.listed.items
\* What the platform returned for a listed dataset, and whether a sync of
\* the dataset can complete with it: the dataset is in the catalog and at
\* least one table or measure row came back.
Returned(d) == http_request.discovered[d]
CanSync(d) ==
    /\ d \in DOMAIN datasets
    /\ Returned(d).tables # <<>> \/ Returned(d).measures # <<>>
\* The names of the rows stored for a dataset.
StoredTableNames(d) == {catalog_tables[k].name : k \in TablesOf(d)}
StoredMeasureNames(d) == {catalog_measures[k].name : k \in MeasuresOf(d)}
\* Every row with a name that the platform returned for the dataset is stored.
IsSynced(d) ==
    /\ \A k \in DOMAIN Returned(d).tables :
          Returned(d).tables[k].TableName # None =>
              Returned(d).tables[k].TableName.value \in StoredTableNames(d)
    /\ \A k \in DOMAIN Returned(d).measures :
          Returned(d).measures[k].MeasureName # None =>
              Returned(d).measures[k].MeasureName.value \in StoredMeasureNames(d)
\* After a workspace sync: the result has one outcome per listed dataset, in
\* the order of the list; a dataset that could sync is synced and reported
\* so, wherever it stands in the list; the result reports success exactly
\* when at least one dataset synced.
C25_Attempted ==
    WorkspaceSyncAsked =>
        /\ Len(sync_result.outcomes) = Len(Listed)
        /\ \A k \in DOMAIN Listed :
              /\ sync_result.outcomes[k].dataset_id = Listed[k]
              /\ sync_result.outcomes[k].result.success = CanSync(Listed[k])
              /\ CanSync(Listed[k]) => IsSynced(Listed[k])
        /\ sync_result.success = (\E k \in DOMAIN Listed : CanSync(Listed[k]))
        /\ sync_result.success =>
              workspaces[http_request.workspace_id].last_synced
                  = Value(http_request.utcnow)
\* One step: the last_synced of a workspace changes only to the time of a
\* sync request for that workspace whose result reports success.
C25_Step ==
    \A w \in StoredWorkspaces :
        (w \in DOMAIN workspaces'
            /\ workspaces'[w].last_synced # workspaces[w].last_synced) =>
            \/ /\ http_request'.route = "sync_workspace"
               /\ http_request'.workspace_id = w
               /\ sync_result'.success
               /\ workspaces'[w].last_synced = Value(now)
            \/ /\ http_request'.route = "create_workspace"
               /\ "last_synced" \in DOMAIN http_request'.data
\* C25: syncWorkspace attempts syncDataset for every listed dataset, goes on
\* after a dataset that failed, and reports success iff at least one dataset
\* synced; the route stamps the workspace's last_synced only when the result
\* reports success and leaves it unchanged otherwise.
C25_BestEffortWorkspaceSync == []C25_Attempted /\ [][C25_Step]_vars
\* A workspace sync on the last day listed a dataset that failed before one
\* that synced: the result reports one dataset and the workspace is stamped.
C25_Witness ==
    /\ WorkspaceSyncAsked
    /\ http_request.utcnow = MaxDays
    /\ Len(Listed) = 2
    /\ ~sync_result.outcomes[1].result.success
    /\ sync_result.outcomes[2].result.success
    /\ sync_result.datasets_synced = 1
    /\ workspaces[http_request.workspace_id].last_synced = Value(MaxDays)
    /\ http_response.status = 200

\* The eight inbound operations, by the route that serves them.
InboundRoutes ==
    {"sync_dataset", "sync_workspace", "generate_context", "get_dataset_context",
     "get_measure_context", "record_query", "get_query_analytics",
     "get_popular_questions"}
\* The response is a structured result: a success status with a body.
IsResult(response) ==
    /\ "status" \in DOMAIN response
    /\ response.status \in {200, 201}
    /\ DOMAIN response # {"status"}
\* The response is an error response: a client or server error status.
IsErrorResponse(response) ==
    /\ "status" \in DOMAIN response
    /\ response.status \in {400, 500}
\* A collaborator failed, or the request lacks what the operation needs: the
\* entity is missing, the gateway gave nothing, the service or the store
\* raised, a required field is missing.
FailedCollaborator ==
    \/ /\ LastRoute = "sync_dataset"
       /\ http_request.dataset_id \notin DOMAIN datasets \/ ~sync_result.success
    \/ /\ LastRoute = "sync_workspace"
       /\ http_request.workspace_id \notin DOMAIN workspaces \/ ~sync_result.success
    \/ /\ LastRoute \in {"generate_context", "get_dataset_context", "get_measure_context"}
       /\ http_request.outcome \in {None, Raised}
    \/ /\ LastRoute = "record_query"
       /\ \/ ~RecordAsked
          \/ http_request.data["dataset_id"] \notin DOMAIN datasets
    \/ /\ LastRoute = "get_query_analytics"
       /\ "days" \in DOMAIN http_request.args
       /\ \E k \in DOMAIN http_request.args["days"] :
             http_request.args["days"][k] \notin {"0", "1", "2", "3", "4", "5", "6", "7", "8", "9"}
\* C22: every inbound operation (sync dataset, sync workspace, generate
\* context, dataset context, measure context, record query, analytics,
\* popular questions) ends, for every input and every failure of its
\* collaborators, in a structured result or in an error response: no
\* exception leaves the operation, and a failure is answered by an error
\* response.
C22_ResultOrErrorResponse ==
    http_request # None =>
        /\ LastRoute \in InboundRoutes
        /\ http_response # None
        /\ http_response # Raised
        /\ IsResult(http_response) \/ IsErrorResponse(http_response)
        /\ FailedCollaborator => IsErrorResponse(http_response)
\* The context service raised for a dataset that is not in the catalog, and
\* the route answered with the error response of its except branch.
C22_Witness ==
    /\ LastRoute = "generate_context"
    /\ http_request.data # None
    /\ Get(http_request.data, "dataset_id", None) = Value("ds9")
    /\ http_request.outcome = Raised
    /\ IsErrorResponse(http_response)
    /\ catalog_tables # <<>>
    /\ query_history # <<>>

\* C26: in every analytics response successful_queries <= total_queries and
\* 0 <= success_rate <= 100, with success_rate = 0 when total_queries = 0,
\* also when queries are recorded between the count queries of the handler.
\* Violated: the two counts are separate statements; a successful query that
\* is recorded between them is in the second count and not in the first.
C26_CountsAreConsistent ==
    (AnalyticsAnswered /\ "success_rate" \in DOMAIN http_response) =>
        /\ http_response.successful_queries <= http_response.total_queries
        /\ http_response.success_rate.num >= 0
        /\ http_response.success_rate.num <= 100 * http_response.success_rate.den
        /\ http_response.total_queries = 0 => http_response.success_rate.num = 0


\* C27: in discover_dataset_schema the outcome of one introspection query
\* does not affect the rows returned for the other: both queries are issued
\* whatever the first one's outcome, and the schema returned holds under each
\* key the rows of that key's own query (none when that query failed).
\* Violated: a request that raises ends the loop and empties both keys.
C27_QueriesAreIndependent ==
    \A c \in Callers :
        (EndedWithToken(c) /\ op[c] = "discover_dataset_schema")
          => /\ \A i \in DOMAIN calls[c] :
                  ret[c][calls[c][i].query] = calls[c][i].rows
             /\ \A k \in DOMAIN QueryTypes :
                  \E i \in DOMAIN calls[c] : calls[c][i].query = QueryTypes[k]

====
